---- MODULE Spec2Model ----
(***************************************************************************)
(* MARKVOID line-based markdown editor (src/app.js).                       *)
(*                                                                         *)
(* A string is a sequence of one-character strings; the document `lines`   *)
(* is a sequence of strings.  Line indices, offsets and the fields of      *)
(* `ksel` are 0-based as in the source; Line(ls, i) reads lines[i].        *)
(* Handlers are operators from a state record to a state record, so that   *)
(* a handler that calls other handlers is their composition.               *)
(***************************************************************************)
EXTENDS Integers, Sequences, FiniteSets, TLC

VARIABLES lines, activeLineIdx, undoStack, redoStack, undoPushTimer,
          autosaveTimer, lastSavedContent, ksel, crossLineSelActive,
          domSel, editing, focus, selStart, selEnd, blurPending, clipboard,
          oncopy, budget, last

vars == <<lines, activeLineIdx, undoStack, redoStack, undoPushTimer,
          autosaveTimer, lastSavedContent, ksel, crossLineSelActive,
          domSel, editing, focus, selStart, selEnd, blurPending, clipboard,
          oncopy, budget, last>>

(***************************************************************************)
(* Bounds of the model.                                                    *)
(***************************************************************************)
\* number of events explored from an initial document, all handlers enabled
MaxSteps == 2
\* number of events explored when only pointer and key events occur
MaxEditSteps == 2
\* number of events explored when only typing, commits, undo and redo occur
MaxHistSteps == 6
\* number of undo()/redo() calls explored between the commits that fill the stack
MaxUndoRedo == 2
\* number of events explored on the documents that hold list items
MaxListSteps == 3
\* number of events explored when selections are made, copied and cut
MaxClipSteps == 3
\* number of lines of the initial documents built from fence delimiters
MaxFenceLines == 3
\* number of events explored on those documents
MaxFenceSteps == 1
\* number of events explored when the caret is moved by keys
MaxMoveSteps == 2

(***************************************************************************)
(* Program constants.                                                      *)
(***************************************************************************)
\* the depth of the undo stack, src/app.js:1152
UNDO_CAP == 200

\* the fence delimiter character (a backquote in the source; the tilde stands for it)
BT == "~"
NL == "\n"
NoSel == [kind |-> "none"]
\* document.oncopy: whether a handler is installed, and how many times the
\* handler installed last has delivered its text
NoHandler == [on |-> FALSE, fired |-> 0]
NoFocus == -1

(***************************************************************************)
(* String helpers (JavaScript String methods).                             *)
(***************************************************************************)
Min(a, b) == IF a <= b THEN a ELSE b
Max(a, b) == IF a >= b THEN a ELSE b

\* s.slice(a, b) for 0 <= a, 0 <= b
Slice(s, a, b) ==
  LET lo == Min(a, Len(s))
      hi == Min(b, Len(s))
  IN IF hi <= lo THEN <<>> ELSE SubSeq(s, lo + 1, hi)

\* s.slice(a)
SliceFrom(s, a) == Slice(s, a, Len(s))

\* lines[i] || ''
Line(ls, i) == IF i >= 0 /\ i < Len(ls) THEN ls[i + 1] ELSE <<>>

\* line.startsWith(fence delimiter): three backquotes
startsWithFence(s) == Len(s) >= 3 /\ s[1] = BT /\ s[2] = BT /\ s[3] = BT

isSpace(c) == c = " "
isDigit(c) == c \in {"0", "1", "2", "3", "4", "5", "6", "7", "8", "9"}

RECURSIVE trimStart(_)
trimStart(s) == IF s # <<>> /\ isSpace(s[1]) THEN trimStart(Tail(s)) ELSE s

RECURSIVE trimEnd(_)
trimEnd(s) ==
  IF s # <<>> /\ isSpace(s[Len(s)]) THEN trimEnd(SubSeq(s, 1, Len(s) - 1)) ELSE s

trim(s) == trimEnd(trimStart(s))

\* lines.splice(start, count, ...items), start clamped to the length as in JS
Splice(ls, start, count, items) ==
  LET st == Min(Max(start, 0), Len(ls))
      dc == Min(Max(count, 0), Len(ls) - st)
  IN SubSeq(ls, 1, st) \o items \o SubSeq(ls, st + dc + 1, Len(ls))

\* lines[i] = v on an existing index
SetLine(ls, i, v) == [ls EXCEPT ![i + 1] = v]

\* the value undefined as an entry of the line store: not a string
undefined == <<"undefined">>

\* String(undefined), as string concatenation converts it
undefinedText == <<"u", "n", "d", "e", "f", "i", "n", "e", "d">>

\* every entry of the line store is a string
allStrings(ls) == \A j \in 1 .. Len(ls) : ls[j] # undefined

\* lines[i] read as JavaScript reads it: undefined past the end
elementAt(ls, i) == IF i >= 0 /\ i < Len(ls) THEN ls[i + 1] ELSE undefined

\* lines[i] = v as JavaScript assigns it: an index past the end extends the
\* array, and the entries skipped over are holes, which read as undefined
assignAt(ls, i, v) ==
  IF i < Len(ls) THEN [ls EXCEPT ![i + 1] = v]
  ELSE ls \o [j \in 1 .. i - Len(ls) |-> undefined] \o <<v>>

\* lines.join('\n')
RECURSIVE Join(_)
Join(ls) ==
  IF ls = <<>> THEN <<>>
  ELSE IF Len(ls) = 1 THEN ls[1]
  ELSE ls[1] \o <<NL>> \o Join(Tail(ls))

(***************************************************************************)
(* Fence analysis.                                                         *)
(***************************************************************************)
\* one step of the loop of computeFenceStates: st is the running
\* (inFence, fenceLang, fenceStart) before line i (0-based)
RECURSIVE fenceScan(_, _, _, _)
fenceScan(ls, i, st, acc) ==
  IF i >= Len(ls) THEN acc
  ELSE LET line == ls[i + 1]
           nxt == IF startsWithFence(line)
                  THEN IF ~st.inFence
                       THEN [inFence |-> TRUE, fenceLang |-> trim(SliceFrom(line, 3)),
                             fenceStart |-> i]
                       ELSE [inFence |-> FALSE, fenceLang |-> <<>>, fenceStart |-> -1]
                  ELSE st
       IN fenceScan(ls, i + 1, nxt, Append(acc, st))

\* computeFenceStates that records the state of a line after it has looked
\* at the line
computeFenceStates_pushAfter(ls) ==
  Tail(fenceScan(Append(ls, <<>>), 0,
                 [inFence |-> FALSE, fenceLang |-> <<>>, fenceStart |-> -1], <<>>))

computeFenceStates(ls) ==
  fenceScan(ls, 0, [inFence |-> FALSE, fenceLang |-> <<>>, fenceStart |-> -1], <<>>)

NoRange == [start |-> -1, end |-> -1]

\* index of the first fence delimiter at or after i, or -1
RECURSIVE nextFence(_, _)
nextFence(ls, i) ==
  IF i >= Len(ls) THEN -1
  ELSE IF startsWithFence(ls[i + 1]) THEN i
  ELSE nextFence(ls, i + 1)

\* getFenceRange that takes every delimiter line for an opening one
getFenceRange_delimiterOpens(ls, idx) ==
  IF idx < 0 \/ idx >= Len(ls) THEN NoRange
  ELSE LET st == computeFenceStates(ls)[idx + 1]
           isDelimiter == startsWithFence(ls[idx + 1])
       IN IF ~isDelimiter /\ ~st.inFence THEN NoRange
          ELSE LET start == IF isDelimiter THEN idx ELSE st.fenceStart
               IN IF start < 0 THEN NoRange
                  ELSE LET e == nextFence(ls, start + 1)
                       IN [start |-> start,
                           end |-> IF e < 0 THEN Len(ls) - 1 ELSE e]

\* getFenceRange that ends an unclosed fence at its opening line
getFenceRange_unclosedEndsAtStart(ls, idx) ==
  IF idx < 0 \/ idx >= Len(ls) THEN NoRange
  ELSE LET st == computeFenceStates(ls)[idx + 1]
           isDelimiter == startsWithFence(ls[idx + 1])
       IN IF ~isDelimiter /\ ~st.inFence THEN NoRange
          ELSE LET start == IF isDelimiter /\ ~st.inFence THEN idx ELSE st.fenceStart
               IN IF start < 0 THEN NoRange
                  ELSE LET e == nextFence(ls, start + 1)
                       IN [start |-> start, end |-> IF e < 0 THEN start ELSE e]

getFenceRange(ls, idx) ==
  IF idx < 0 \/ idx >= Len(ls) THEN NoRange
  ELSE LET st == computeFenceStates(ls)[idx + 1]
           isOpening == startsWithFence(ls[idx + 1]) /\ ~st.inFence
           isInside == st.inFence
           isClosing == startsWithFence(ls[idx + 1]) /\ st.inFence
       IN IF ~isOpening /\ ~isInside /\ ~isClosing THEN NoRange
          ELSE LET start == IF isOpening THEN idx ELSE st.fenceStart
               IN IF start < 0 THEN NoRange
                  ELSE LET e == nextFence(ls, start + 1)
                       IN [start |-> start,
                           end |-> IF e < 0 THEN Len(ls) - 1 ELSE e]

\* the lines that change mode together with idx
fenceUnit(ls, idx) ==
  LET r == getFenceRange(ls, idx)
  IN IF r = NoRange THEN {idx} ELSE r.start .. r.end

(***************************************************************************)
(* Rendering.  Only the text content of the rendered line matters to the   *)
(* editor (its length drives the offset projections).                      *)
(***************************************************************************)
\* text content of md.render(raw): inline emphasis markers are stripped
RECURSIVE mdText(_)
mdText(raw) ==
  IF raw = <<>> THEN <<>>
  ELSE IF raw[1] = "*" THEN mdText(Tail(raw))
  ELSE <<raw[1]>> \o mdText(Tail(raw))

\* text content of renderLineBlock(idx)
renderLineBlock(ls, idx) ==
  LET raw == Line(ls, idx)
      st == IF idx >= 0 /\ idx < Len(ls) THEN computeFenceStates(ls)[idx + 1]
            ELSE [inFence |-> FALSE, fenceLang |-> <<>>, fenceStart |-> -1]
  IN IF startsWithFence(raw) /\ ~st.inFence THEN <<BT, BT, BT>> \o trim(SliceFrom(raw, 3))
     ELSE IF startsWithFence(raw) /\ st.inFence THEN <<BT, BT, BT>>
     ELSE IF st.inFence THEN (IF raw = <<>> THEN <<" ">> ELSE raw)
     ELSE IF trim(raw) = <<>> THEN <<>>
     ELSE mdText(raw)

\* Math.round((a / b) * c) for b > 0; on lengths below 15 the double
\* computation of the source gives exactly this integer
\* the projection with the quotient truncated before the multiplication
roundRatio_truncatedQuotient(a, b, c) == (a \div b) * c

roundRatio(a, b, c) == (2 * a * c + b) \div (2 * b)

(***************************************************************************)
(* The state record and the elementary DOM operations.                     *)
(***************************************************************************)
S == [lines |-> lines, activeLineIdx |-> activeLineIdx, undoStack |-> undoStack,
      redoStack |-> redoStack, undoPushTimer |-> undoPushTimer,
      autosaveTimer |-> autosaveTimer, lastSavedContent |-> lastSavedContent,
      ksel |-> ksel, crossLineSelActive |-> crossLineSelActive, domSel |-> domSel,
      editing |-> editing, focus |-> focus, selStart |-> selStart,
      selEnd |-> selEnd, blurPending |-> blurPending, clipboard |-> clipboard,
      oncopy |-> oncopy, raf |-> <<>>, pd |-> FALSE, thrown |-> FALSE]

\* getLineEl(idx) exists
hasEl(s, idx) == idx >= 0 /\ idx < Len(s.lines)

\* e.preventDefault()
preventDefault(s) == [s EXCEPT !.pd = TRUE]

\* requestAnimationFrame(cb)
requestAnimationFrame(s, cb) == [s EXCEPT !.raf = Append(@, cb)]

\* window.getSelection().removeAllRanges()
removeAllRanges(s) == [s EXCEPT !.domSel = NoSel]

pushUndo(s) == [s EXCEPT !.undoPushTimer = TRUE]

scheduleAutosave(s) == [s EXCEPT !.autosaveTimer = TRUE]

\* an exception leaves the running handler
throw(s) == [s EXCEPT !.thrown = TRUE]

\* notes.saveNoteContent(id, content): localStorage.setItem throws when the
\* quota is exceeded
saveNoteContent(s, quotaExceeded) == IF quotaExceeded THEN throw(s) ELSE s

\* saveDocument(): the note is written, then lastSavedContent is assigned
saveDocument(s, quotaExceeded) ==
  IF saveNoteContent(s, quotaExceeded).thrown THEN saveNoteContent(s, quotaExceeded)
  ELSE [s EXCEPT !.lastSavedContent = Join(s.lines)]

setActiveLine(s, idx) == [s EXCEPT !.activeLineIdx = idx]

\* raw.setSelectionRange(a, b) on the textarea of line idx
setSelectionRange(s, idx, a, b) ==
  IF s.focus = idx
  THEN LET n == Len(Line(s.lines, idx))
       IN [s EXCEPT !.selStart = Min(a, n), !.selEnd = Min(b, n)]
  ELSE s

\* raw.focus() on the textarea of line idx: its focus handler makes the line
\* active, the textarea that had the focus receives a blur event, and the
\* document selection moves into the textarea
focusRaw(s, idx) ==
  IF s.focus = idx THEN s
  ELSE LET n == Len(Line(s.lines, idx))
       IN [s EXCEPT !.focus = idx, !.selStart = n, !.selEnd = n,
                    !.activeLineIdx = idx,
                    !.domSel = NoSel,
                    !.blurPending = IF s.focus = NoFocus THEN @ ELSE @ \cup {s.focus}]

\* the elements of the lines from fromIdx on are removed and created again
dropEls(s, fromIdx) ==
  [s EXCEPT !.editing = {i \in @ : i < fromIdx},
            !.focus = IF @ >= fromIdx THEN NoFocus ELSE @,
            !.blurPending = {i \in @ : i < fromIdx},
            !.domSel = IF @.kind = "range" /\ @.endLine >= fromIdx THEN NoSel ELSE @]

buildAllLines(s) == dropEls(s, 0)

rebuildFromIndex(s, fromIdx) == dropEls(s, fromIdx)

closeFenceForEdit(s, idx) ==
  LET r == getFenceRange(s.lines, idx)
  IN [s EXCEPT !.editing = @ \ (r.start .. r.end)]

switchToRendered(s, idx) ==
  IF getFenceRange(s.lines, idx) # NoRange THEN closeFenceForEdit(s, idx)
  ELSE IF ~hasEl(s, idx) THEN s
  ELSE [s EXCEPT !.editing = @ \ {idx}]

\* openFenceForEdit that shows the textarea of the target line only
openFenceForEdit_onlyTarget(s, idx) ==
  focusRaw(setActiveLine([s EXCEPT !.editing = @ \cup {idx}], idx), idx)

openFenceForEdit(s, idx) ==
  LET r == getFenceRange(s.lines, idx)
      s1 == [s EXCEPT !.editing = @ \cup (r.start .. r.end)]
  IN focusRaw(setActiveLine(s1, idx), idx)

switchToRaw(s, idx) ==
  IF getFenceRange(s.lines, idx) # NoRange THEN openFenceForEdit(s, idx)
  ELSE LET s1 == setActiveLine(s, idx)
       IN IF ~hasEl(s, idx) THEN s1
          ELSE focusRaw([s1 EXCEPT !.editing = @ \cup {idx}], idx)

(***************************************************************************)
(* Selection engine.                                                       *)
(***************************************************************************)
NoKsel == [anchorLine |-> -1, anchorOffset |-> -1, focusLine |-> -1, focusOffset |-> -1]

NoCross == [startLine |-> -1, startOffset |-> -1, endLine |-> -1, endOffset |-> -1]

\* kselNormalized() of a non-null ksel
\* kselNormalized that compares line numbers only, so a same-line selection
\* whose focus precedes its anchor is not swapped
kselNormalized_linesOnly(k) ==
  IF k.anchorLine <= k.focusLine
  THEN [startLine |-> k.anchorLine, startOffset |-> k.anchorOffset,
        endLine |-> k.focusLine, endOffset |-> k.focusOffset]
  ELSE [startLine |-> k.focusLine, startOffset |-> k.focusOffset,
        endLine |-> k.anchorLine, endOffset |-> k.anchorOffset]

kselNormalized(k) ==
  IF k.anchorLine < k.focusLine
     \/ (k.anchorLine = k.focusLine /\ k.anchorOffset <= k.focusOffset)
  THEN [startLine |-> k.anchorLine, startOffset |-> k.anchorOffset,
        endLine |-> k.focusLine, endOffset |-> k.focusOffset]
  ELSE [startLine |-> k.focusLine, startOffset |-> k.focusOffset,
        endLine |-> k.anchorLine, endOffset |-> k.anchorOffset]

getKselAsCross(s) ==
  IF s.ksel = NoKsel THEN NoCross
  ELSE LET norm == kselNormalized(s.ksel)
       IN IF norm.startLine = norm.endLine THEN NoCross ELSE norm

\* findTextNodeAtOffset: the rendered character position a raw offset maps to
findTextNodeAtOffset(ls, idx, rawOffset) ==
  LET rawLine == Line(ls, idx)
      renderedLen == Len(renderLineBlock(ls, idx))
      targetOffset == IF Len(rawLine) > 0
                      THEN roundRatio(rawOffset, Len(rawLine), renderedLen)
                      ELSE 0
  IN Min(targetOffset, renderedLen)

\* offsetInLine of getCrossLineSelection: the raw offset a rendered
\* character position maps to
offsetInLine(s, lineIdx, charPos) ==
  IF ~hasEl(s, lineIdx) THEN 0
  ELSE IF lineIdx \in s.editing THEN charPos
  ELSE LET fullLen == Len(renderLineBlock(s.lines, lineIdx))
       IN IF fullLen = 0 THEN 0
          ELSE roundRatio(charPos, fullLen, Len(Line(s.lines, lineIdx)))

getCrossLineSelection(s) ==
  IF s.domSel.kind # "range" THEN NoCross
  ELSE IF s.domSel.startLine = s.domSel.endLine THEN NoCross
  ELSE [startLine |-> s.domSel.startLine,
        startOffset |-> offsetInLine(s, s.domSel.startLine, s.domSel.startPos),
        endLine |-> s.domSel.endLine,
        endOffset |-> offsetInLine(s, s.domSel.endLine, s.domSel.endPos)]

\* the animation-frame callback of applyKselVisual
paintKsel(s, norm) ==
  IF ~hasEl(s, norm.startLine) \/ ~hasEl(s, norm.endLine) THEN s
  ELSE LET sp == findTextNodeAtOffset(s.lines, norm.startLine, norm.startOffset)
           ep == findTextNodeAtOffset(s.lines, norm.endLine, norm.endOffset)
       IN [s EXCEPT !.domSel = IF norm.startLine = norm.endLine /\ sp = ep
                               THEN NoSel
                               ELSE [kind |-> "range",
                                     startLine |-> norm.startLine, startPos |-> sp,
                                     endLine |-> norm.endLine, endPos |-> ep],
                    !.crossLineSelActive = TRUE]

\* switchToRendered(i) for every line startLine..i that is being edited
RECURSIVE renderRange(_, _, _)
renderRange(s, i, endLine) ==
  IF i > endLine THEN s
  ELSE renderRange(IF hasEl(s, i) /\ i \in s.editing THEN switchToRendered(s, i) ELSE s,
                   i + 1, endLine)

\* applyKselVisual that leaves the anchor line in Editing mode
applyKselVisual_keepAnchor(s) ==
  IF s.ksel = NoKsel THEN s
  ELSE LET norm == kselNormalized(s.ksel)
           s1 == renderRange(s, Max(norm.startLine, 0), Min(norm.endLine, Len(s.lines) - 1))
           s2 == [s1 EXCEPT !.editing = @ \cup ({s.ksel.anchorLine} \cap s.editing)]
       IN requestAnimationFrame(s2, [fn |-> "paint", norm |-> norm])

applyKselVisual(s) ==
  IF s.ksel = NoKsel THEN s
  ELSE LET norm == kselNormalized(s.ksel)
           s1 == renderRange(s, Max(norm.startLine, 0), Min(norm.endLine, Len(s.lines) - 1))
       IN requestAnimationFrame(s1, [fn |-> "paint", norm |-> norm])

clearKsel(s) ==
  IF s.ksel = NoKsel THEN s
  ELSE LET k == s.ksel
           s1 == removeAllRanges([s EXCEPT !.ksel = NoKsel, !.crossLineSelActive = FALSE])
           s2 == switchToRaw(s1, k.focusLine)
       IN requestAnimationFrame(s2, [fn |-> "caret", idx |-> k.focusLine,
                                     col |-> k.focusOffset])

(***************************************************************************)
(* History.                                                                *)
(***************************************************************************)
\* undoTimerFired without the eviction of the oldest entry
undoTimerFired_noShift(s) ==
  LET snapshot == s.lines
      s0 == [s EXCEPT !.undoPushTimer = FALSE]
  IN IF Len(s.undoStack) > 0 /\ s.undoStack[Len(s.undoStack)] = snapshot THEN s0
     ELSE [s0 EXCEPT !.undoStack = Append(s.undoStack, snapshot), !.redoStack = <<>>]

\* undoTimerFired of a timer that stays armed after it has fired
undoTimerFired_staysArmed(s) ==
  LET snapshot == s.lines
  IN IF Len(s.undoStack) > 0 /\ s.undoStack[Len(s.undoStack)] = snapshot THEN s
     ELSE LET pushed == Append(s.undoStack, snapshot)
          IN [s EXCEPT !.undoStack = IF Len(pushed) > UNDO_CAP THEN Tail(pushed) ELSE pushed,
                       !.redoStack = <<>>]

\* the callback armed by pushUndo(), run when the 300 ms timer fires
undoTimerFired(s) ==
  LET snapshot == s.lines
      s0 == [s EXCEPT !.undoPushTimer = FALSE]
  IN IF Len(s.undoStack) > 0 /\ s.undoStack[Len(s.undoStack)] = snapshot THEN s0
     ELSE LET pushed == Append(s.undoStack, snapshot)
          IN [s0 EXCEPT !.undoStack = IF Len(pushed) > UNDO_CAP THEN Tail(pushed) ELSE pushed,
                        !.redoStack = <<>>]

\* undo that does not keep the current document for redo
undo_noRedoPush(s) ==
  IF Len(s.undoStack) = 0 THEN s
  ELSE LET prev == s.undoStack[Len(s.undoStack)]
           s1 == [s EXCEPT !.undoStack = SubSeq(@, 1, Len(@) - 1), !.lines = prev]
       IN scheduleAutosave(buildAllLines(s1))

\* app.undo()
undo(s) ==
  IF Len(s.undoStack) = 0 THEN s
  ELSE LET current == s.lines
           prev == s.undoStack[Len(s.undoStack)]
           s1 == [s EXCEPT !.redoStack = Append(@, current),
                           !.undoStack = SubSeq(@, 1, Len(@) - 1),
                           !.lines = prev]
       IN scheduleAutosave(buildAllLines(s1))

\* app.redo()
redo(s) ==
  IF Len(s.redoStack) = 0 THEN s
  ELSE LET current == s.lines
           next == s.redoStack[Len(s.redoStack)]
           s1 == [s EXCEPT !.undoStack = Append(@, current),
                           !.redoStack = SubSeq(@, 1, Len(@) - 1),
                           !.lines = next]
       IN scheduleAutosave(buildAllLines(s1))

\* setContent(text) for a text whose split('\n') is ls
setContent(s, ls) ==
  LET s1 == buildAllLines([s EXCEPT !.lines = ls, !.undoStack = <<>>, !.redoStack = <<>>])
  IN requestAnimationFrame(s1, [fn |-> "raw", idx |-> 0, col |-> -1])

(***************************************************************************)
(* Selection-consuming edits.                                              *)
(***************************************************************************)
\* deleteKsel that splices nothing in when the merged line is empty and does
\* not restore the empty line
deleteKsel_dropEmpty(s, insert) ==
  IF s.ksel = NoKsel THEN s
  ELSE LET norm == kselNormalized(s.ksel)
           before == Slice(Line(s.lines, norm.startLine), 0, norm.startOffset)
           after == SliceFrom(Line(s.lines, norm.endLine), norm.endOffset)
           newLines == IF insert = <<NL>> THEN <<before, after>>
                       ELSE IF before \o insert \o after = <<>> THEN <<>>
                       ELSE <<before \o insert \o after>>
           spliced == Splice(s.lines, norm.startLine,
                             norm.endLine - norm.startLine + 1, newLines)
           s1 == [s EXCEPT !.lines = spliced,
                           !.ksel = NoKsel, !.crossLineSelActive = FALSE]
           s2 == buildAllLines(removeAllRanges(s1))
       IN scheduleAutosave(pushUndo(s2))

\* deleteKsel(insert): insert is <<>> (nothing), <<NL>> or a typed character
deleteKsel(s, insert) ==
  IF s.ksel = NoKsel THEN s
  ELSE LET norm == kselNormalized(s.ksel)
           before == Slice(Line(s.lines, norm.startLine), 0, norm.startOffset)
           after == SliceFrom(Line(s.lines, norm.endLine), norm.endOffset)
           newLines == IF insert = <<NL>> THEN <<before, after>>
                       ELSE <<before \o insert \o after>>
           spliced == Splice(s.lines, norm.startLine,
                             norm.endLine - norm.startLine + 1, newLines)
           s1 == [s EXCEPT !.lines = IF Len(spliced) = 0 THEN << <<>> >> ELSE spliced,
                           !.ksel = NoKsel, !.crossLineSelActive = FALSE]
           s2 == buildAllLines(removeAllRanges(s1))
           cursorLine == IF insert = <<NL>> THEN norm.startLine + 1 ELSE norm.startLine
           cursorCol == IF insert = <<NL>> THEN 0 ELSE Len(before) + Len(insert)
           s3 == requestAnimationFrame(s2, [fn |-> "raw", idx |-> cursorLine,
                                            col |-> cursorCol])
       IN scheduleAutosave(pushUndo(s3))

\* deleteSelection that keeps the end line's text up to endOffset instead of
\* the text after it
deleteSelection_keepHead(s, crossSel) ==
  IF crossSel = NoCross \/ crossSel.startLine = crossSel.endLine THEN s
  ELSE LET before == Slice(Line(s.lines, crossSel.startLine), 0, crossSel.startOffset)
           after == Slice(Line(s.lines, crossSel.endLine), 0, crossSel.endOffset)
           spliced == Splice(s.lines, crossSel.startLine,
                             crossSel.endLine - crossSel.startLine + 1, <<before \o after>>)
           s1 == buildAllLines([s EXCEPT !.lines = spliced])
           s2 == requestAnimationFrame(s1, [fn |-> "raw", idx |-> crossSel.startLine,
                                            col |-> Len(before)])
           s3 == scheduleAutosave(pushUndo(s2))
       IN removeAllRanges([s3 EXCEPT !.crossLineSelActive = FALSE])

\* deleteSelection(crossSel); the result is s when it returns false
deleteSelection(s, crossSel) ==
  IF crossSel = NoCross \/ crossSel.startLine = crossSel.endLine THEN s
  ELSE LET before == Slice(Line(s.lines, crossSel.startLine), 0, crossSel.startOffset)
           after == SliceFrom(Line(s.lines, crossSel.endLine), crossSel.endOffset)
           merged == before \o after
           spliced == Splice(s.lines, crossSel.startLine,
                             crossSel.endLine - crossSel.startLine + 1, <<merged>>)
           s1 == buildAllLines([s EXCEPT !.lines = IF Len(spliced) = 0 THEN << <<>> >>
                                                   ELSE spliced])
           s2 == requestAnimationFrame(s1, [fn |-> "raw", idx |-> crossSel.startLine,
                                            col |-> Len(before)])
           s3 == scheduleAutosave(pushUndo(s2))
       IN removeAllRanges([s3 EXCEPT !.crossLineSelActive = FALSE])

\* the copied text with the end line taken whole
selectedText_wholeEnd(ls, c) ==
  LET part(i) == IF i = c.startLine /\ i = c.endLine
                 THEN Slice(Line(ls, i), c.startOffset, c.endOffset)
                 ELSE IF i = c.startLine THEN SliceFrom(Line(ls, i), c.startOffset)
                 ELSE Line(ls, i)
  IN Join([j \in 1 .. (c.endLine - c.startLine + 1) |-> part(c.startLine + j - 1)])

\* the copied text with the start line taken whole
selectedText_wholeStart(ls, c) ==
  LET part(i) == IF i = c.startLine /\ i = c.endLine
                 THEN Slice(Line(ls, i), c.startOffset, c.endOffset)
                 ELSE IF i = c.endLine THEN Slice(Line(ls, i), 0, c.endOffset)
                 ELSE Line(ls, i)
  IN Join([j \in 1 .. (c.endLine - c.startLine + 1) |-> part(c.startLine + j - 1)])

\* the text copy and cut write to the clipboard
selectedText(ls, c) ==
  LET part(i) == IF i = c.startLine /\ i = c.endLine
                 THEN Slice(Line(ls, i), c.startOffset, c.endOffset)
                 ELSE IF i = c.startLine THEN SliceFrom(Line(ls, i), c.startOffset)
                 ELSE IF i = c.endLine THEN Slice(Line(ls, i), 0, c.endOffset)
                 ELSE Line(ls, i)
  IN Join([j \in 1 .. (c.endLine - c.startLine + 1) |-> part(c.startLine + j - 1)])

(***************************************************************************)
(* Key events.  An event is [key, shift, ctrl, alt]; a key is a named key  *)
(* or the character it types.                                              *)
(***************************************************************************)
NamedKeys == {"Enter", "Backspace", "Delete", "ArrowUp", "ArrowDown", "ArrowLeft",
              "ArrowRight", "Home", "End", "Tab", "Escape"}

\* e.key.length === 1
isChar(key) == key \notin NamedKeys

plain(key) == [key |-> key, shift |-> FALSE, ctrl |-> FALSE, alt |-> FALSE]
shifted(key) == [key |-> key, shift |-> TRUE, ctrl |-> FALSE, alt |-> FALSE]
ctrl(key) == [key |-> key, shift |-> FALSE, ctrl |-> TRUE, alt |-> FALSE]
alt(key) == [key |-> key, shift |-> FALSE, ctrl |-> FALSE, alt |-> TRUE]

\* number of leading characters of s that satisfy the test
RECURSIVE spanSpaces(_)
spanSpaces(s) == IF s # <<>> /\ isSpace(s[1]) THEN 1 + spanSpaces(Tail(s)) ELSE 0

RECURSIVE spanDigits(_)
spanDigits(s) == IF s # <<>> /\ isDigit(s[1]) THEN 1 + spanDigits(Tail(s)) ELSE 0

\* before.match(/^(\s*)([-*+]|\d+\.)\s/): ok, group 1 and group 2
listMatch(before) ==
  LET nws == spanSpaces(before)
      rest == SliceFrom(before, nws)
      nd == spanDigits(rest)
      marker == IF rest # <<>> /\ rest[1] \in {"-", "*", "+"} THEN <<rest[1]>>
                ELSE IF nd > 0 /\ Len(rest) > nd /\ rest[nd + 1] = "." THEN Slice(rest, 0, nd + 1)
                ELSE <<>>
      ok == marker # <<>> /\ Len(rest) > Len(marker) /\ isSpace(rest[Len(marker) + 1])
  IN [ok |-> ok, indent |-> Slice(before, 0, nws), marker |-> marker]

digitValue(c) == CASE c = "0" -> 0 [] c = "1" -> 1 [] c = "2" -> 2 [] c = "3" -> 3
                   [] c = "4" -> 4 [] c = "5" -> 5 [] c = "6" -> 6 [] c = "7" -> 7
                   [] c = "8" -> 8 [] OTHER -> 9

digitChar(d) == <<"0", "1", "2", "3", "4", "5", "6", "7", "8", "9">>[d + 1]

\* parseInt of a string that starts with digits
RECURSIVE parseDigits(_, _)
parseDigits(s, acc) ==
  IF s # <<>> /\ isDigit(s[1]) THEN parseDigits(Tail(s), 10 * acc + digitValue(s[1]))
  ELSE acc

parseInt(s) == parseDigits(s, 0)

\* String(n) for n >= 0
RECURSIVE numToString(_)
numToString(n) ==
  IF n < 10 THEN <<digitChar(n)>> ELSE numToString(n \div 10) \o <<digitChar(n % 10)>>

\* the auto-pair table PAIRS (the tilde stands for the backquote)
pairOf(key) == CASE key = "(" -> ")" [] key = "[" -> "]" [] key = "{" -> "}"
                 [] key = "\"" -> "\"" [] key = "'" -> "'" [] key = BT -> BT
                 [] OTHER -> ""

\* /[\s\)\]\}\,\.\;\:]/.test(c)
pairableNext(c) == c \in {" ", ")", "]", "}", ",", ".", ";", ":"}

\* app.selectAll()
selectAll(s) ==
  LET lastIdx == Len(s.lines) - 1
  IN [(IF s.editing # {} THEN switchToRendered(s, s.activeLineIdx) ELSE s)
        EXCEPT !.ksel = [anchorLine |-> 0, anchorOffset |-> 0, focusLine |-> lastIdx,
                         focusOffset |-> Len(Line(s.lines, lastIdx))],
               !.crossLineSelActive = TRUE,
               !.domSel = [kind |-> "container"],
               !.oncopy = [on |-> TRUE, fired |-> 0]]

\* app.duplicateLine()
duplicateLine(s) ==
  LET idx == s.activeLineIdx
      copy == Line(s.lines, idx)
      s1 == rebuildFromIndex([s EXCEPT !.lines = Splice(@, idx + 1, 0, <<copy>>)], idx)
      s2 == requestAnimationFrame(s1, [fn |-> "raw", idx |-> idx + 1, col |-> -1])
  IN scheduleAutosave(pushUndo(s2))

\* getSelectedLines(): the lines the document selection intersects
getSelectedLines(s) ==
  IF s.domSel.kind = "range" THEN s.domSel.startLine .. s.domSel.endLine
  ELSE IF s.domSel.kind = "container" THEN 0 .. Len(s.lines) - 1
  ELSE {}

\* the lines a line tool works on
toolTargets(s) ==
  IF getSelectedLines(s) # {} THEN getSelectedLines(s) ELSE {s.activeLineIdx}

\* Math.min(...targets)
minOf(targets) == CHOOSE m \in targets : \A t \in targets : m <= t

\* no callback for the next frame
NoCallback == [fn |-> "none"]

\* what a line tool does after it has assigned to the line store:
\* rebuildFromIndex(fromIdx), the callback for the next frame, pushUndo() and
\* scheduleAutosave(). rebuildFromIndex removes the line elements and calls
\* computeFenceStates(), which throws a TypeError on an entry that is not a
\* string; the error ends the tool there.
finishTool(s, fromIdx, cb) ==
  IF ~allStrings(s.lines) THEN throw(dropEls(s, fromIdx))
  ELSE scheduleAutosave(pushUndo(
         IF cb = NoCallback THEN rebuildFromIndex(s, fromIdx)
         ELSE requestAnimationFrame(rebuildFromIndex(s, fromIdx), cb)))

\* app.moveLineUp()
moveLineUp(s) ==
  LET idx == s.activeLineIdx
      upper == elementAt(s.lines, idx - 1)
      lower == elementAt(s.lines, idx)
  IN IF idx = 0 THEN s
     ELSE finishTool([s EXCEPT !.lines = assignAt(assignAt(@, idx - 1, lower), idx, upper)],
                     idx - 1, [fn |-> "raw", idx |-> idx - 1, col |-> -1])

\* app.moveLineDown()
moveLineDown(s) ==
  LET idx == s.activeLineIdx
      upper == elementAt(s.lines, idx)
      lower == elementAt(s.lines, idx + 1)
  IN IF idx >= Len(s.lines) - 1 THEN s
     ELSE finishTool([s EXCEPT !.lines = assignAt(assignAt(@, idx, lower), idx + 1, upper)],
                     idx, [fn |-> "raw", idx |-> idx + 1, col |-> -1])

\* '  ' + lines[i]
indented(v) == <<" ", " ">> \o (IF v = undefined THEN undefinedText ELSE v)

\* app.indentLines(): the selected lines are lines of the document, the
\* active line index is used as it is
indentLines(s) ==
  finishTool([s EXCEPT !.lines =
                IF getSelectedLines(s) # {}
                THEN [j \in 1 .. Len(@) |->
                        IF j - 1 \in getSelectedLines(s) THEN indented(@[j]) ELSE @[j]]
                ELSE assignAt(@, s.activeLineIdx, indented(elementAt(@, s.activeLineIdx)))],
             minOf(toolTargets(s)), NoCallback)

\* line.replace(/^  /, '').replace(/^\t/, '')
outdented(v) ==
  LET v1 == IF Len(v) >= 2 /\ v[1] = " " /\ v[2] = " " THEN SliceFrom(v, 2) ELSE v
  IN IF Len(v1) >= 1 /\ v1[1] = "\t" THEN SliceFrom(v1, 1) ELSE v1

\* app.outdentLines(): lines[i].replace throws a TypeError where lines[i] is
\* undefined, before anything is assigned
outdentLines(s) ==
  IF \E i \in toolTargets(s) : elementAt(s.lines, i) = undefined THEN throw(s)
  ELSE finishTool([s EXCEPT !.lines =
                     [j \in 1 .. Len(@) |->
                        IF j - 1 \in toolTargets(s) THEN outdented(@[j]) ELSE @[j]]],
                  minOf(toolTargets(s)), NoCallback)

(***************************************************************************)
(* Notes in storage. A stored value is absent, unreadable (getItem throws), *)
(* corrupt (JSON.parse throws) or the record of a note with its content.    *)
(***************************************************************************)
\* text.split('\n')
RECURSIVE split(_)
split(text) ==
  IF \A j \in 1 .. Len(text) : text[j] # NL THEN <<text>>
  ELSE LET at == CHOOSE j \in 1 .. Len(text) :
                   text[j] = NL /\ \A k \in 1 .. j - 1 : text[k] # NL
       IN <<SubSeq(text, 1, at - 1)>> \o split(SubSeq(text, at + 1, Len(text)))

\* notes.loadNoteContent(id)
loadNoteContent(stored) ==
  IF stored.kind = "note" THEN stored.content ELSE <<>>

\* notes.switchTo(id): flushCurrent() writes the current note, then the
\* content of note id is loaded and shown
switchTo(s, stored, quotaExceeded) ==
  IF saveNoteContent(s, quotaExceeded).thrown THEN saveNoteContent(s, quotaExceeded)
  ELSE setContent(s, split(loadNoteContent(stored)))

(***************************************************************************)
(* Find and replace. A search term is a string over literal characters,     *)
(* the quantifier * and the opening parenthesis; a compiled pattern is the  *)
(* sequence of its atoms, each a character that may be repeated.            *)
(***************************************************************************)
\* new RegExp(term) throws a SyntaxError: a quantifier with nothing to
\* repeat, or a group that is never closed (no term holds a closing
\* parenthesis)
RECURSIVE syntaxError(_)
syntaxError(term) ==
  IF term = <<>> THEN FALSE
  ELSE IF term[1] \in {"*", "("} THEN TRUE
  ELSE IF Len(term) >= 2 /\ term[2] = "*" THEN syntaxError(SliceFrom(term, 2))
  ELSE syntaxError(Tail(term))

\* the atoms of new RegExp(term) for a term without syntax error
RECURSIVE regexAtoms(_)
regexAtoms(term) ==
  IF term = <<>> THEN <<>>
  ELSE IF Len(term) >= 2 /\ term[2] = "*"
  THEN <<[ch |-> term[1], star |-> TRUE]>> \o regexAtoms(SliceFrom(term, 2))
  ELSE <<[ch |-> term[1], star |-> FALSE]>> \o regexAtoms(Tail(term))

\* new RegExp(escapeRegex(term)): every character of the term is a literal
escapeRegex(term) == [j \in 1 .. Len(term) |-> [ch |-> term[j], star |-> FALSE]]

\* the letters the flag i identifies
toLowerCase(c) == IF c = "C" THEN "c" ELSE c

\* character c of the text matches atom character a
charMatches(a, c, ignoreCase) ==
  a = c \/ (ignoreCase /\ toLowerCase(a) = toLowerCase(c))

\* the number of characters from pos on that match a
RECURSIVE runLength(_, _, _, _)
runLength(a, t, pos, ignoreCase) ==
  IF pos < Len(t) /\ charMatches(a, t[pos + 1], ignoreCase)
  THEN 1 + runLength(a, t, pos + 1, ignoreCase)
  ELSE 0

\* the end of the match of the atoms at pos, or -1: a repeated atom takes as
\* many characters as it can and gives them back one by one
RECURSIVE matchEnd(_, _, _, _)
RECURSIVE matchStar(_, _, _, _, _)
matchEnd(atoms, t, pos, ignoreCase) ==
  IF atoms = <<>> THEN pos
  ELSE IF atoms[1].star
  THEN matchStar(atoms, t, pos, runLength(atoms[1].ch, t, pos, ignoreCase), ignoreCase)
  ELSE IF pos < Len(t) /\ charMatches(atoms[1].ch, t[pos + 1], ignoreCase)
  THEN matchEnd(Tail(atoms), t, pos + 1, ignoreCase)
  ELSE -1

matchStar(atoms, t, pos, n, ignoreCase) ==
  IF n < 0 THEN -1
  ELSE IF matchEnd(Tail(atoms), t, pos + n, ignoreCase) # -1
  THEN matchEnd(Tail(atoms), t, pos + n, ignoreCase)
  ELSE matchStar(atoms, t, pos, n - 1, ignoreCase)

\* the first position from pos on where the atoms match, or -1
RECURSIVE searchFrom(_, _, _, _)
searchFrom(atoms, t, pos, ignoreCase) ==
  IF pos > Len(t) THEN -1
  ELSE IF matchEnd(atoms, t, pos, ignoreCase) # -1 THEN pos
  ELSE searchFrom(atoms, t, pos + 1, ignoreCase)

\* regex.test(line)
regexTest(atoms, t, ignoreCase) == searchFrom(atoms, t, 0, ignoreCase) # -1

\* line.replace(regex, replacement) without the flag g: the first match
replaceFirst(atoms, t, replacement, ignoreCase) ==
  LET at == searchFrom(atoms, t, 0, ignoreCase)
  IN IF at = -1 THEN t
     ELSE Slice(t, 0, at) \o replacement
          \o SliceFrom(t, matchEnd(atoms, t, at, ignoreCase))

\* line.replace(regex, replacement) with the flag g, from pos on: every
\* match, an empty match being followed by the character it stands before
RECURSIVE replaceEvery(_, _, _, _, _)
replaceEvery(atoms, t, pos, replacement, ignoreCase) ==
  IF pos > Len(t) THEN <<>>
  ELSE IF matchEnd(atoms, t, pos, ignoreCase) > pos
  THEN replacement \o replaceEvery(atoms, t, matchEnd(atoms, t, pos, ignoreCase),
                                   replacement, ignoreCase)
  ELSE (IF matchEnd(atoms, t, pos, ignoreCase) = pos THEN replacement ELSE <<>>)
       \o (IF pos < Len(t)
           THEN <<t[pos + 1]>> \o replaceEvery(atoms, t, pos + 1, replacement, ignoreCase)
           ELSE <<>>)

\* the index of the first line from i on that the pattern matches, or -1
RECURSIVE firstMatchingLine(_, _, _, _)
firstMatchingLine(atoms, ls, i, ignoreCase) ==
  IF i >= Len(ls) THEN -1
  ELSE IF regexTest(atoms, ls[i + 1], ignoreCase) THEN i
  ELSE firstMatchingLine(atoms, ls, i + 1, ignoreCase)

\* the pattern the replace dialog compiles; opt holds the term, the
\* replacement and the options useRegex and caseSensitive
compiled(opt) == IF opt.useRegex THEN regexAtoms(opt.term) ELSE escapeRegex(opt.term)

\* replaceOne after the pattern has compiled: i is the first matching line
replaceOneAt(s, opt, i) ==
  pushUndo(scheduleAutosave(
    IF i = -1 THEN s
    ELSE [s EXCEPT !.lines = SetLine(@, i, replaceFirst(compiled(opt), Line(@, i),
                                                        opt.replacement,
                                                        ~opt.caseSensitive))]))

\* app.replaceOne() that goes on after the pattern has failed to compile
replaceOne_noCatch(s, opt) ==
  IF opt.term = <<>> THEN s
  ELSE IF opt.useRegex /\ syntaxError(opt.term) THEN pushUndo(scheduleAutosave(s))
  ELSE replaceOneAt(s, opt, firstMatchingLine(compiled(opt), s.lines, 0, ~opt.caseSensitive))

\* app.replaceOne()
replaceOne(s, opt) ==
  IF opt.term = <<>> THEN s
  ELSE IF opt.useRegex /\ syntaxError(opt.term) THEN s
  ELSE replaceOneAt(s, opt, firstMatchingLine(compiled(opt), s.lines, 0, ~opt.caseSensitive))

\* app.replaceAll()
replaceAll(s, opt) ==
  IF opt.term = <<>> THEN s
  ELSE IF opt.useRegex /\ syntaxError(opt.term) THEN s
  ELSE pushUndo(scheduleAutosave(buildAllLines(
         [s EXCEPT !.lines = [j \in 1 .. Len(@) |->
                                replaceEvery(compiled(opt), @[j], 0, opt.replacement,
                                             ~opt.caseSensitive)]])))

\* the Enter branch that loses the character after the caret
lineEnter_skipChar(s, idx) ==
  LET val == Line(s.lines, idx)
      before == Slice(val, 0, s.selStart)
      after == SliceFrom(val, s.selStart + 1)
      ls1 == Splice(SetLine(s.lines, idx, before), idx + 1, 0, <<after>>)
      s1 == rebuildFromIndex([preventDefault(s) EXCEPT !.lines = ls1], idx)
      s2 == requestAnimationFrame(s1, [fn |-> "raw", idx |-> idx + 1, col |-> 0])
  IN scheduleAutosave(pushUndo(s2))

\* the Enter branch that repeats the ordinal of a numbered item
lineEnter_sameOrdinal(s, idx) ==
  LET val == Line(s.lines, idx)
      before == Slice(val, 0, s.selStart)
      after == SliceFrom(val, s.selStart)
      m == listMatch(before)
      s0 == preventDefault(s)
  IN IF m.ok /\ (trim(before) = m.marker)
     THEN [s0 EXCEPT !.lines = SetLine(@, idx, <<>>), !.selStart = 0, !.selEnd = 0]
     ELSE LET prefix == IF ~m.ok THEN <<>> ELSE m.indent \o m.marker \o <<" ">>
              ls1 == Splice(SetLine(s.lines, idx, before), idx + 1, 0, <<prefix \o after>>)
              s1 == rebuildFromIndex([s0 EXCEPT !.lines = ls1], idx)
              s2 == requestAnimationFrame(s1, [fn |-> "raw", idx |-> idx + 1,
                                               col |-> Len(prefix)])
          IN scheduleAutosave(pushUndo(s2))

\* the Enter branch without the empty-bullet case: a bare prefix is continued
lineEnter_noCollapse(s, idx) ==
  LET val == Line(s.lines, idx)
      before == Slice(val, 0, s.selStart)
      after == SliceFrom(val, s.selStart)
      m == listMatch(before)
      prefix == IF ~m.ok THEN <<>>
                ELSE IF isDigit(m.marker[1])
                THEN m.indent \o numToString(parseInt(m.marker) + 1) \o <<".", " ">>
                ELSE m.indent \o m.marker \o <<" ">>
      ls1 == Splice(SetLine(s.lines, idx, before), idx + 1, 0, <<prefix \o after>>)
      s1 == rebuildFromIndex([preventDefault(s) EXCEPT !.lines = ls1], idx)
      s2 == requestAnimationFrame(s1, [fn |-> "raw", idx |-> idx + 1, col |-> Len(prefix)])
  IN scheduleAutosave(pushUndo(s2))

\* the Enter branch of handleLineKeydown
lineEnter(s, idx) ==
  LET val == Line(s.lines, idx)
      before == Slice(val, 0, s.selStart)
      after == SliceFrom(val, s.selStart)
      m == listMatch(before)
      s0 == preventDefault(s)
  IN IF m.ok /\ (trim(before) = m.marker)
     THEN [s0 EXCEPT !.lines = SetLine(@, idx, <<>>), !.selStart = 0, !.selEnd = 0]
     ELSE LET prefix == IF ~m.ok THEN <<>>
                        ELSE IF isDigit(m.marker[1])
                        THEN m.indent \o numToString(parseInt(m.marker) + 1) \o <<".", " ">>
                        ELSE m.indent \o m.marker \o <<" ">>
              ls1 == Splice(SetLine(s.lines, idx, before), idx + 1, 0, <<prefix \o after>>)
              s1 == rebuildFromIndex([s0 EXCEPT !.lines = ls1], idx)
              s2 == requestAnimationFrame(s1, [fn |-> "raw", idx |-> idx + 1,
                                               col |-> Len(prefix)])
          IN scheduleAutosave(pushUndo(s2))

\* the merge that leaves the caret at the end of the merged line
lineMergeBackward_caretAtEnd(s, idx) ==
  LET val == Line(s.lines, idx)
      prevContent == Line(s.lines, idx - 1)
      ls1 == Splice(SetLine(s.lines, idx - 1, prevContent \o val), idx, 1, <<>>)
      s1 == rebuildFromIndex([preventDefault(s) EXCEPT !.lines = ls1], idx - 1)
      s2 == requestAnimationFrame(s1, [fn |-> "raw", idx |-> idx - 1,
                                       col |-> Len(prevContent \o val)])
  IN scheduleAutosave(pushUndo(s2))

\* Backspace at the start of a line: merge with the previous line
lineMergeBackward(s, idx) ==
  LET val == Line(s.lines, idx)
      prevContent == Line(s.lines, idx - 1)
      cursor == Len(prevContent)
      ls1 == Splice(SetLine(s.lines, idx - 1, prevContent \o val), idx, 1, <<>>)
      s1 == rebuildFromIndex([preventDefault(s) EXCEPT !.lines = ls1], idx - 1)
      s2 == requestAnimationFrame(s1, [fn |-> "raw", idx |-> idx - 1, col |-> cursor])
  IN scheduleAutosave(pushUndo(s2))

\* the forward merge that keeps the next line in place after joining it
lineMergeForward_keepNext(s, idx) ==
  LET val == Line(s.lines, idx)
      ls1 == SetLine(s.lines, idx, val \o Line(s.lines, idx + 1))
      s1 == rebuildFromIndex([preventDefault(s) EXCEPT !.lines = ls1], idx)
      s2 == requestAnimationFrame(s1, [fn |-> "raw", idx |-> idx, col |-> Len(val)])
  IN scheduleAutosave(pushUndo(s2))

\* Delete at the end of a line: merge with the next line
lineMergeForward(s, idx) ==
  LET val == Line(s.lines, idx)
      ls1 == Splice(SetLine(s.lines, idx, val \o Line(s.lines, idx + 1)), idx + 1, 1, <<>>)
      s1 == rebuildFromIndex([preventDefault(s) EXCEPT !.lines = ls1], idx)
      s2 == requestAnimationFrame(s1, [fn |-> "raw", idx |-> idx, col |-> Len(val)])
  IN scheduleAutosave(pushUndo(s2))

\* ksel = ksel || {anchor and focus at the caret of line idx}
kselOrStart(s, idx) ==
  IF s.ksel # NoKsel THEN s.ksel
  ELSE [anchorLine |-> idx, anchorOffset |-> s.selStart,
        focusLine |-> idx, focusOffset |-> s.selStart]

\* the ArrowUp branch of handleLineKeydown
lineArrowUp(s, e, idx) ==
  IF idx > 0
  THEN IF e.shift
       THEN LET k == kselOrStart(s, idx)
                fl == Max(0, k.focusLine - 1)
                k1 == [k EXCEPT !.focusLine = fl, !.focusOffset = Len(Line(s.lines, fl))]
            IN applyKselVisual([preventDefault(s) EXCEPT !.ksel = k1])
       ELSE switchToRaw(switchToRendered(preventDefault(clearKsel(s)), idx), idx - 1)
  ELSE s

\* the ArrowDown branch of handleLineKeydown
lineArrowDown(s, e, idx) ==
  IF idx < Len(s.lines) - 1
  THEN IF e.shift
       THEN LET k == kselOrStart(s, idx)
                fl == Min(Len(s.lines) - 1, k.focusLine + 1)
                k1 == [k EXCEPT !.focusLine = fl, !.focusOffset = 0]
            IN applyKselVisual([preventDefault(s) EXCEPT !.ksel = k1])
       ELSE switchToRaw(switchToRendered(preventDefault(clearKsel(s)), idx), idx + 1)
  ELSE IF e.shift
       THEN LET k == kselOrStart(s, idx)
                k1 == [k EXCEPT !.focusOffset = Len(Line(s.lines, idx))]
            IN applyKselVisual([s EXCEPT !.ksel = k1])
       ELSE s

\* handleLineKeydown from the Tab branch on; s1 is the state the branches
\* before it leave
lineKeydownRest(s1, e, idx) ==
  LET val == Line(s1.lines, idx)
      sel == s1.selStart
  IN IF e.key = "Tab"
     THEN LET newVal == Slice(val, 0, sel) \o <<" ", " ">> \o SliceFrom(val, sel)
          IN scheduleAutosave([preventDefault(s1) EXCEPT
               !.lines = SetLine(@, idx, newVal),
               !.selStart = sel + 2, !.selEnd = sel + 2])
     ELSE IF e.ctrl /\ e.key = "z" THEN undo(preventDefault(s1))
     ELSE IF e.ctrl /\ e.key = "y" THEN redo(preventDefault(s1))
     ELSE IF ~e.ctrl /\ ~e.alt /\ pairOf(e.key) # "" /\ s1.selEnd > s1.selStart
     THEN LET newVal == Slice(val, 0, s1.selStart) \o <<e.key>>
                        \o Slice(val, s1.selStart, s1.selEnd) \o <<pairOf(e.key)>>
                        \o SliceFrom(val, s1.selEnd)
          IN scheduleAutosave([preventDefault(s1) EXCEPT
               !.lines = SetLine(@, idx, newVal),
               !.selStart = s1.selStart + 1, !.selEnd = s1.selEnd + 1])
     ELSE IF ~e.ctrl /\ ~e.alt /\ pairOf(e.key) # ""
             /\ (s1.selStart >= Len(val) \/ pairableNext(val[s1.selStart + 1]))
     THEN LET newVal == Slice(val, 0, s1.selStart) \o <<e.key, pairOf(e.key)>>
                        \o SliceFrom(val, s1.selStart)
          IN scheduleAutosave([preventDefault(s1) EXCEPT
               !.lines = SetLine(@, idx, newVal),
               !.selStart = s1.selStart + 1, !.selEnd = s1.selStart + 1])
     ELSE IF ~e.ctrl /\ e.key \in {")", "]", "}"} /\ s1.selStart = s1.selEnd
             /\ s1.selStart < Len(val) /\ val[s1.selStart + 1] = e.key
     THEN [preventDefault(s1) EXCEPT !.selStart = @ + 1, !.selEnd = @ + 1]
     ELSE IF e.ctrl /\ e.key = "a" THEN selectAll(preventDefault(s1))
     ELSE IF e.ctrl /\ e.key = "d" THEN duplicateLine(preventDefault(s1))
     ELSE IF e.ctrl /\ e.key = "]" THEN indentLines(preventDefault(s1))
     ELSE IF e.ctrl /\ e.key = "[" THEN outdentLines(preventDefault(s1))
     ELSE s1

\* handleLineKeydown(e, idx, raw) on the focused textarea of line idx
handleLineKeydown(s, e, idx) ==
  LET val == Line(s.lines, idx)
      sel == s.selStart
      crossKsel == s.ksel # NoKsel /\ s.ksel.focusLine # s.ksel.anchorLine
  IN IF crossKsel /\ e.key \in {"Delete", "Backspace"} /\ ~e.ctrl
     THEN deleteKsel(preventDefault(s), <<>>)
     ELSE IF crossKsel /\ ~e.ctrl /\ ~e.alt /\ isChar(e.key)
     THEN deleteKsel(preventDefault(s), <<e.key>>)
     ELSE IF crossKsel /\ e.key = "Enter" /\ ~e.shift
     THEN deleteKsel(preventDefault(s), <<NL>>)
     ELSE IF e.key = "Enter" /\ ~e.shift THEN lineEnter(s, idx)
     ELSE IF e.key = "Backspace" /\ sel = 0 /\ idx > 0 /\ s.selEnd = 0
     THEN lineMergeBackward(s, idx)
     ELSE IF e.key = "Delete" /\ sel = Len(val) /\ idx < Len(s.lines) - 1
     THEN lineMergeForward(s, idx)
     ELSE IF e.key = "ArrowUp" THEN lineArrowUp(s, e, idx)
     ELSE IF e.key = "ArrowDown" THEN lineArrowDown(s, e, idx)
     ELSE IF e.key \in {"End", "Home"} /\ e.shift /\ crossKsel
     THEN applyKselVisual([preventDefault(s) EXCEPT
            !.ksel = [@ EXCEPT !.focusLine = idx,
                               !.focusOffset = IF e.key = "End" THEN Len(val) ELSE 0]])
     ELSE lineKeydownRest(IF e.key \in {"ArrowLeft", "ArrowRight"} /\ ~e.shift
                          THEN clearKsel(s) ELSE s, e, idx)

\* the selection branches of the document keydown handler; pointerSel is
\* getCrossLineSelection()
globalSelectionKeys(s, e, pointerSel) ==
  LET anySel == s.crossLineSelActive \/ s.ksel # NoKsel
      crossSel == IF pointerSel # NoCross THEN pointerSel ELSE getKselAsCross(s)
  IN IF e.key \in {"Delete", "Backspace"} /\ anySel /\ crossSel # NoCross
     THEN [deleteSelection(preventDefault(s), crossSel) EXCEPT !.ksel = NoKsel]
     ELSE IF s.crossLineSelActive /\ s.ksel = NoKsel /\ ~e.ctrl /\ ~e.alt
             /\ isChar(e.key) /\ pointerSel # NoCross
     THEN requestAnimationFrame(deleteSelection(preventDefault(s), pointerSel),
                                [fn |-> "typeover", idx |-> pointerSel.startLine,
                                 key |-> e.key])
     ELSE IF e.ctrl /\ e.key = "c" /\ anySel /\ crossSel # NoCross
     THEN [preventDefault(s) EXCEPT !.clipboard = selectedText(s.lines, crossSel)]
     ELSE IF e.ctrl /\ e.key = "x" /\ anySel /\ crossSel # NoCross
     THEN deleteSelection([preventDefault(s) EXCEPT
                             !.clipboard = selectedText(s.lines, crossSel),
                             !.ksel = NoKsel], crossSel)
     ELSE IF e.key = "Escape"
     THEN [s EXCEPT !.crossLineSelActive = FALSE, !.ksel = NoKsel]
     ELSE s

\* the Ctrl+A and Ctrl+D branches of the document keydown handler
globalShortcuts(s, e) ==
  IF e.ctrl /\ e.key = "a" THEN selectAll(preventDefault(s))
  ELSE IF e.ctrl /\ e.key = "d" THEN duplicateLine(preventDefault(s))
  ELSE IF e.ctrl /\ e.key = "]" THEN indentLines(preventDefault(s))
  ELSE IF e.ctrl /\ e.key = "[" THEN outdentLines(preventDefault(s))
  ELSE IF e.alt /\ e.key = "ArrowUp" THEN moveLineUp(preventDefault(s))
  ELSE IF e.alt /\ e.key = "ArrowDown" THEN moveLineDown(preventDefault(s))
  ELSE s

\* the selection branches on the state the shortcut branches leave
\* (an error thrown in a shortcut branch has ended the handler)
globalAfterShortcuts(s, e) ==
  IF s.thrown THEN s
  ELSE globalSelectionKeys(s, e, getCrossLineSelection(s))

\* the part of the document keydown handler that concerns the editor core
globalKeydown(s, e) == globalAfterShortcuts(globalShortcuts(s, e), e)

\* the text of line idx as displayed: the rendered text, preceded by the
\* line number in the gutter when withGutter
displayText(ls, idx, withGutter) ==
  (IF withGutter THEN numToString(idx + 1) ELSE <<>>) \o renderLineBlock(ls, idx)

\* the text the document selection covers
domSelText(s) ==
  LET d == s.domSel
      whole == [j \in 1 .. Len(s.lines) |-> displayText(s.lines, j - 1, TRUE)]
      part(i) == LET r == displayText(s.lines, i, i > d.startLine)
                     from == IF i = d.startLine THEN d.startPos ELSE 0
                     to == IF i = d.endLine
                           THEN d.endPos + (IF i > d.startLine THEN Len(numToString(i + 1)) ELSE 0)
                           ELSE Len(r)
                 IN Slice(r, from, to)
  IN IF d.kind = "container" THEN Join(whole)
     ELSE IF d.kind = "range"
     THEN Join([j \in 1 .. (d.endLine - d.startLine + 1) |-> part(d.startLine + j - 1)])
     ELSE <<>>

\* the text selected in the focused textarea
fieldSelText(s) ==
  IF s.focus = NoFocus THEN <<>>
  ELSE Slice(Line(s.lines, s.focus), s.selStart, s.selEnd)

\* window.getSelection().toString(); fieldInSel: the browser reports the
\* selection of a focused textarea there
windowSelText(s, fieldInSel) ==
  IF s.domSel.kind # "none" THEN domSelText(s)
  ELSE IF fieldInSel THEN fieldSelText(s)
  ELSE <<>>

\* the copy event of a Ctrl+C no keydown handler prevented: document.oncopy
\* as selectAll installs it, else the browser's copy of the selected text
copyEvent(s, fieldInSel) ==
  LET own == IF s.domSel.kind # "none" THEN domSelText(s) ELSE fieldSelText(s)
  IN IF s.oncopy.on /\ windowSelText(s, fieldInSel) # <<>>
     THEN [s EXCEPT !.clipboard = Join(s.lines),
                    !.oncopy = [on |-> FALSE, fired |-> Min(@.fired + 1, 2)]]
     ELSE IF own # <<>> THEN [s EXCEPT !.clipboard = own]
     ELSE s

\* the input event handler of the textarea of line idx (raw.value is newVal)
inputHandler(s, idx, newVal) ==
  pushUndo(scheduleAutosave([s EXCEPT !.lines = SetLine(@, idx, newVal)]))

\* the browser's own handling of a key in the focused textarea of line idx,
\* followed by the input event it fires; the textarea shows one row, so
\* that ArrowUp and ArrowDown move the caret to its ends
defaultAction(s, e, idx) ==
  LET val == Line(s.lines, idx)
      a == s.selStart
      b == s.selEnd
  IN IF ~hasEl(s, idx) \/ s.focus # idx THEN s
     ELSE IF isChar(e.key) /\ ~e.ctrl /\ ~e.alt
     THEN inputHandler([s EXCEPT !.selStart = a + 1, !.selEnd = a + 1], idx,
                       Slice(val, 0, a) \o <<e.key>> \o SliceFrom(val, b))
     ELSE IF e.key \in {"Backspace", "Delete"} /\ a < b
     THEN inputHandler([s EXCEPT !.selEnd = a], idx, Slice(val, 0, a) \o SliceFrom(val, b))
     ELSE IF e.key = "Backspace" /\ a > 0
     THEN inputHandler([s EXCEPT !.selStart = a - 1, !.selEnd = a - 1], idx,
                       Slice(val, 0, a - 1) \o SliceFrom(val, a))
     ELSE IF e.key = "Delete" /\ a < Len(val)
     THEN inputHandler(s, idx, Slice(val, 0, a) \o SliceFrom(val, a + 1))
     ELSE IF e.ctrl /\ e.key = "x" /\ a < b
     THEN inputHandler([s EXCEPT !.selEnd = a, !.clipboard = Slice(val, a, b)], idx,
                       Slice(val, 0, a) \o SliceFrom(val, b))
     ELSE IF e.shift \/ e.ctrl \/ e.alt THEN s
     ELSE IF e.key \in {"Home", "ArrowUp"} THEN setSelectionRange(s, idx, 0, 0)
     ELSE IF e.key \in {"End", "ArrowDown"} THEN setSelectionRange(s, idx, Len(val), Len(val))
     ELSE IF e.key = "ArrowLeft"
     THEN setSelectionRange(s, idx, IF a < b THEN a ELSE Max(a - 1, 0),
                            IF a < b THEN a ELSE Max(a - 1, 0))
     ELSE IF e.key = "ArrowRight"
     THEN setSelectionRange(s, idx, IF a < b THEN b ELSE Min(a + 1, Len(val)),
                            IF a < b THEN b ELSE Min(a + 1, Len(val)))
     ELSE s

\* one animation-frame callback
runCallback(s, cb) ==
  IF cb.fn = "raw"
  THEN IF hasEl(s, cb.idx) /\ cb.col >= 0
       THEN setSelectionRange(switchToRaw(s, cb.idx), cb.idx, cb.col, cb.col)
       ELSE switchToRaw(s, cb.idx)
  ELSE IF cb.fn = "click"
  THEN IF hasEl(s, cb.idx) /\ ~s.crossLineSelActive THEN switchToRaw(s, cb.idx) ELSE s
  ELSE IF cb.fn = "paint" THEN paintKsel(s, cb.norm)
  ELSE IF cb.fn = "caret"
  THEN IF hasEl(s, cb.idx) THEN setSelectionRange(s, cb.idx, cb.col, cb.col) ELSE s
  ELSE IF cb.fn = "typeover"
  THEN IF hasEl(s, cb.idx) /\ s.focus = cb.idx
       THEN LET pos == s.selStart
                val == Line(s.lines, cb.idx)
                newVal == Slice(val, 0, pos) \o <<cb.key>> \o SliceFrom(val, pos)
            IN scheduleAutosave([s EXCEPT !.lines = SetLine(@, cb.idx, newVal),
                                          !.selStart = pos + 1, !.selEnd = pos + 1])
       ELSE s
  ELSE s

\* the queued animation-frame callbacks run in order
RECURSIVE runFrom(_, _)
runFrom(s, i) ==
  IF i > Len(s.raf) THEN [s EXCEPT !.raf = <<>>]
  ELSE runFrom(runCallback(s, s.raf[i]), i + 1)

runRaf(s) == runFrom(s, 1)

\* the keydown listener of the focused textarea, if there is one
lineKeydown(s, e) ==
  IF s.focus # NoFocus THEN handleLineKeydown(s, e, s.focus) ELSE s

\* the default action, unless a handler prevented it; target had the focus
\* when the key was pressed
keyDefault(s, e, target, fieldInSel) ==
  IF s.pd THEN s
  ELSE IF e.ctrl /\ e.key = "c" THEN copyEvent(s, fieldInSel)
  ELSE IF target # NoFocus THEN defaultAction(s, e, target)
  ELSE s

\* a key event: the handler of the focused textarea, then the document
\* handler it bubbles to, then the default action, then the next frame
keyEvent(s, e, fieldInSel) ==
  runRaf(keyDefault(globalKeydown(lineKeydown(s, e), e), e, s.focus, fieldInSel))

(***************************************************************************)
(* Pointer events.                                                         *)
(***************************************************************************)
\* the focused textarea loses the focus to something that is not a line
blurFocus(s) ==
  IF s.focus = NoFocus THEN s
  ELSE [s EXCEPT !.focus = NoFocus, !.blurPending = @ \cup {s.focus}]

\* the document mousedown handler, for a target inside the editor pane
mouseDown(s) ==
  [s EXCEPT !.crossLineSelActive = FALSE, !.ksel = NoKsel, !.domSel = NoSel]

\* the document mousedown handler, for a target outside the editor pane
mouseDownOutside(s) == [s EXCEPT !.crossLineSelActive = FALSE]

\* mousedown, mouseup and click on line idx without a drag; the caret lands at col
clickLine(s, idx, col) ==
  LET s1 == mouseDown(s)
      s2 == IF idx \in s1.editing /\ getFenceRange(s1.lines, idx) = NoRange
            THEN focusRaw(s1, idx)
            ELSE switchToRaw(IF s1.focus # idx THEN blurFocus(s1) ELSE s1, idx)
  IN setSelectionRange(s2, idx, col, col)

\* mousedown on a rendered line, drag to another rendered line, mouseup
dragSelect(s, sl, sp, el, ep) ==
  [blurFocus(mouseDown(s)) EXCEPT
     !.domSel = [kind |-> "range", startLine |-> sl, startPos |-> sp,
                 endLine |-> el, endPos |-> ep],
     !.crossLineSelActive = TRUE]

\* the deferred check that closes the line whatever holds the focus
blurCheck_alwaysCloses(s, idx) ==
  switchToRendered([s EXCEPT !.blurPending = @ \ {idx}], idx)

\* the deferred check of the blur handler of line idx
blurCheck(s, idx) ==
  LET s0 == [s EXCEPT !.blurPending = @ \ {idx}]
      myRange == getFenceRange(s.lines, idx)
      theirRange == getFenceRange(s.lines, s.focus)
  IN IF s.focus # NoFocus /\ myRange # NoRange /\ theirRange # NoRange
        /\ myRange = theirRange
     THEN s0
     ELSE switchToRendered(s0, idx)

(***************************************************************************)
(* Initial state: init() with the stored content of the active note.       *)
(***************************************************************************)
str3(a, b, c) == <<a, b, c>>

DocEmpty == << <<>> >>
DocAbc == << str3("a", "b", "c"), str3("d", "e", "f"), str3("g", "h", "i") >>
DocFoo == << str3("f", "o", "o"), str3("b", "a", "r") >>
DocHello == << <<"h", "e", "l", "l", "o", " ", "w", "o", "r", "l", "d">> >>
DocFence == << str3(BT, BT, BT), <<"a">>, str3(BT, BT, BT) >>
DocList == << str3("-", " ", "a"), <<"1", ".", " ", "b">>, str3("*", "c", "*") >>
DocMark == << str3("-", " ", "a"), str3("*", "c", "*") >>

InitDocs == {DocEmpty, DocFoo, DocFence, DocMark}
EditDocs == {DocAbc, DocFoo, DocHello, DocMark}
HistDocs == {DocEmpty, DocFoo}

TypeChars == {"x"}

Fresh ==
  [lines |-> << <<>> >>, activeLineIdx |-> 0, undoStack |-> <<>>, redoStack |-> <<>>,
   undoPushTimer |-> FALSE, autosaveTimer |-> FALSE, lastSavedContent |-> <<>>,
   ksel |-> NoKsel, crossLineSelActive |-> FALSE, domSel |-> NoSel,
   editing |-> {}, focus |-> NoFocus, selStart |-> 0, selEnd |-> 0,
   blurPending |-> {}, clipboard |-> <<>>, oncopy |-> NoHandler,
   raf |-> <<>>, pd |-> FALSE, thrown |-> FALSE]

\* init(): setContent(content), undoStack.push(lines.slice()), next frame
init(doc) ==
  runRaf([setContent(Fresh, doc) EXCEPT !.undoStack = Append(@, doc)])

\* the variables take the fields of t; last records the step taken (op, arg),
\* the state it was taken in (pre), the step before it and the document that
\* step was taken on (before), and whether an edit changed the document since
\* the last undo() (dirty), and whether an exception left the handler
\* (thrown); cost is what the step takes from the exploration budget
Becomes(t, op, arg, cost) ==
  /\ budget >= cost
  /\ budget' = budget - cost
  /\ lines' = t.lines
  /\ activeLineIdx' = t.activeLineIdx
  /\ undoStack' = t.undoStack
  /\ redoStack' = t.redoStack
  /\ undoPushTimer' = t.undoPushTimer
  /\ autosaveTimer' = t.autosaveTimer
  /\ lastSavedContent' = t.lastSavedContent
  /\ ksel' = t.ksel
  /\ crossLineSelActive' = t.crossLineSelActive
  /\ domSel' = t.domSel
  /\ editing' = t.editing
  /\ focus' = t.focus
  /\ selStart' = t.selStart
  /\ selEnd' = t.selEnd
  /\ blurPending' = t.blurPending
  /\ clipboard' = t.clipboard
  /\ oncopy' = t.oncopy
  /\ last' = [op |-> op, arg |-> arg, pre |-> S, thrown |-> t.thrown,
              before |-> [op |-> last.op, lines |-> last.pre.lines],
              dirty |-> IF op = "undo" THEN FALSE
                        ELSE IF op # "redo" /\ t.lines # lines THEN TRUE
                        ELSE last.dirty]

\* the variables start as the fields of t, with b steps to explore
StartsAs(t, b) ==
  /\ lines = t.lines
  /\ activeLineIdx = t.activeLineIdx
  /\ undoStack = t.undoStack
  /\ redoStack = t.redoStack
  /\ undoPushTimer = t.undoPushTimer
  /\ autosaveTimer = t.autosaveTimer
  /\ lastSavedContent = t.lastSavedContent
  /\ ksel = t.ksel
  /\ crossLineSelActive = t.crossLineSelActive
  /\ domSel = t.domSel
  /\ editing = t.editing
  /\ focus = t.focus
  /\ selStart = t.selStart
  /\ selEnd = t.selEnd
  /\ blurPending = t.blurPending
  /\ clipboard = t.clipboard
  /\ oncopy = t.oncopy
  /\ budget = b
  /\ last = [op |-> "init", arg |-> <<>>, pre |-> t, thrown |-> FALSE,
             before |-> [op |-> "init", lines |-> t.lines], dirty |-> FALSE]

\* the state init() leaves for a stored document drawn from docs
InitWith(docs, b) == \E doc \in docs : StartsAs(init(doc), b)

Init == InitWith(InitDocs, MaxSteps)

(***************************************************************************)
(* Actions.                                                                *)
(***************************************************************************)
\* a user event is handled once the zero-delay blur checks have run
UserStep(t, op, arg, cost) ==
  /\ blurPending = {}
  /\ Becomes(t, op, arg, cost)

\* the key events: typed characters, editing and arrow keys, Ctrl+A
AllKeys ==
  {plain(c) : c \in TypeChars}
  \cup {plain("Enter"), plain("Backspace"), plain("Delete"), plain("ArrowUp"),
        plain("ArrowDown"), shifted("ArrowUp"), shifted("ArrowDown"), ctrl("a")}

EditKeys == AllKeys \ {plain("ArrowUp"), plain("ArrowDown")}

HistKeys == {plain(c) : c \in TypeChars} \cup {plain("Enter"), plain("Backspace")}

\* the name a key event is recorded under, and the character it types
opOf(e) ==
  IF e.ctrl /\ e.key = "a" THEN "selectAll"
  ELSE IF e.ctrl /\ e.key = "c" THEN "copy"
  ELSE IF e.ctrl /\ e.key = "x" THEN "cut"
  ELSE IF e.ctrl /\ e.key = "d" THEN "duplicateLine"
  ELSE IF e.ctrl /\ e.key = "]" THEN "indentLines"
  ELSE IF e.ctrl /\ e.key = "[" THEN "outdentLines"
  ELSE IF e.alt /\ e.key = "ArrowUp" THEN "moveLineUp"
  ELSE IF e.alt /\ e.key = "ArrowDown" THEN "moveLineDown"
  ELSE IF e.shift /\ e.key = "ArrowUp" THEN "ShiftArrowUp"
  ELSE IF e.shift /\ e.key = "ArrowDown" THEN "ShiftArrowDown"
  ELSE IF e.shift /\ e.key = "Home" THEN "ShiftHome"
  ELSE IF e.shift /\ e.key = "End" THEN "ShiftEnd"
  ELSE IF isChar(e.key) THEN "char"
  ELSE e.key

argOf(e) == IF isChar(e.key) /\ ~e.ctrl THEN e.key ELSE <<>>

\* a keydown event for one of the keys
Keydown(keys, cost) ==
  \E e \in keys : \E fieldInSel \in (IF e.ctrl /\ e.key = "c" THEN BOOLEAN ELSE {FALSE}) :
    UserStep(keyEvent(S, e, fieldInSel), opOf(e), argOf(e), cost)

KeydownAny == Keydown(AllKeys, 1)

\* app.undo() and app.redo(), from the menu or from Ctrl+Z / Ctrl+Y
Undo == UserStep(undo(S), "undo", <<>>, 1)

Redo == UserStep(redo(S), "redo", <<>>, 1)

Click ==
  \E idx \in 0 .. Len(lines) - 1 : \E col \in 0 .. Len(Line(lines, idx)) :
    UserStep(clickLine(S, idx, col), "click", <<idx, col>>, 1)

DragSelect ==
  \E sl \in 0 .. Len(lines) - 1 : \E el \in sl + 1 .. Len(lines) - 1 :
    \E sp \in 0 .. Len(renderLineBlock(lines, sl)) :
      \E ep \in 0 .. Len(renderLineBlock(lines, el)) :
        /\ editing \cap {sl, el} = {}
        /\ UserStep(dragSelect(S, sl, sp, el, ep), "drag", <<sl, sp, el, ep>>, 1)

\* the user selects text inside the focused textarea
SelectInLine ==
  \E a \in 0 .. Len(Line(lines, focus)) : \E b \in a + 1 .. Len(Line(lines, focus)) :
    /\ focus # NoFocus
    /\ UserStep([S EXCEPT !.selStart = a, !.selEnd = b], "select", <<a, b>>, 1)

\* the focus leaves the line editors: by a click outside the editor pane
\* (outside) or without a pointer event
Blur ==
  \E outside \in BOOLEAN :
    /\ focus # NoFocus
    /\ UserStep(blurFocus(IF outside THEN mouseDownOutside(S) ELSE S), "blur", outside, 0)

\* the zero-delay timer of a blur handler fires
BlurCheck ==
  \E idx \in blurPending : Becomes(blurCheck(S, idx), "blurCheck", idx, 0)

\* the 300 ms timer armed by pushUndo() fires
DoUndoTimerFire(cost) ==
  /\ undoPushTimer
  /\ Becomes(undoTimerFired(S), "commit", <<>>, cost)
UndoTimerFire == DoUndoTimerFire(1)

\* the autosave timer fires
AutosaveFire ==
  /\ autosaveTimer
  /\ Becomes([saveDocument(S, FALSE) EXCEPT !.autosaveTimer = FALSE], "save", <<>>, 1)

Next ==
  \/ KeydownAny \/ Undo \/ Redo
  \/ Click \/ DragSelect \/ SelectInLine \/ Blur \/ BlurCheck
  \/ UndoTimerFire \/ AutosaveFire

Spec == Init /\ [][Next]_vars

(***************************************************************************)
(* Pointer and key events only, explored deeper.                           *)
(***************************************************************************)
InitEdit == InitWith(EditDocs, MaxEditSteps)

KeydownEdit == Keydown(EditKeys, 1)

NextEdit ==
  \/ KeydownEdit
  \/ Click \/ DragSelect \/ SelectInLine \/ Blur \/ BlurCheck

SpecEdit == InitEdit /\ [][NextEdit]_vars

(***************************************************************************)
(* Typing, history commits, undo and redo only, explored deeper.           *)
(***************************************************************************)
InitHist == InitWith(HistDocs, MaxHistSteps)

KeydownHist == Keydown(HistKeys, 1)

NextHist ==
  \/ KeydownHist \/ Click \/ UndoTimerFire \/ Undo \/ Redo

SpecHist == InitHist /\ [][NextHist]_vars

(***************************************************************************)
(* Filling the undo stack: the one-line document alternates between the    *)
(* empty line and a typed character, every commit is explored, and the     *)
(* budget bounds the calls of undo() and redo().                           *)
(***************************************************************************)
InitCap == InitWith({DocEmpty}, MaxUndoRedo)

\* type a character into the empty line, erase it from the typed one
CapEdit ==
  /\ focus = 0
  /\ Keydown(IF lines = << <<>> >> THEN {plain(c) : c \in TypeChars}
             ELSE {plain("Backspace")}, 0)

CapCommit == DoUndoTimerFire(0)

CapClick == focus = NoFocus /\ UserStep(clickLine(S, 0, Len(Line(lines, 0))), "click", <<>>, 0)

NextCap == CapEdit \/ CapCommit \/ CapClick \/ Undo \/ Redo

SpecCap == InitCap /\ [][NextCap]_vars

(***************************************************************************)
(* List items: Enter, Backspace, typing and clicks on documents that hold  *)
(* bulleted and numbered lines.                                            *)
(***************************************************************************)
DocNum == << <<" ", "9", ".", " ", "b">> >>
DocBullet == << <<"-", " ">>, <<"x">> >>

ListDocs == {DocList, DocNum, DocBullet}

ListKeys == {plain(c) : c \in TypeChars} \cup {plain("Enter"), plain("Backspace")}

InitList == InitWith(ListDocs, MaxListSteps)

KeydownList == Keydown(ListKeys, 1)

NextList == KeydownList \/ Click \/ SelectInLine \/ Blur \/ BlurCheck

SpecList == InitList /\ [][NextList]_vars

(***************************************************************************)
(* Selecting across lines with the pointer or the keyboard, selecting the  *)
(* whole document, copy and cut.                                           *)
(***************************************************************************)
DocOne == << <<"*", "c", "*">> >>
DocThree == << <<"a", "b">>, <<"c">>, <<"d", "e">> >>

ClipDocs == {DocThree, DocMark, DocOne}

ClipKeys == {ctrl("c"), ctrl("x"), ctrl("a"), shifted("ArrowUp"), shifted("ArrowDown")}

InitClip == InitWith(ClipDocs, MaxClipSteps)

KeydownClip == Keydown(ClipKeys, 1)

NextClip == KeydownClip \/ Click \/ DragSelect \/ SelectInLine \/ Blur \/ BlurCheck

SpecClip == InitClip /\ [][NextClip]_vars

(***************************************************************************)
(* Fence blocks: every document of up to MaxFenceLines lines that are a    *)
(* fence delimiter, a delimiter short of one character or plain text;      *)
(* lines are clicked, left, and edited by typing the delimiter character,  *)
(* Backspace and Enter.                                                    *)
(***************************************************************************)
FenceLines == {<<BT, BT, BT>>, <<BT, BT>>, <<"a">>}

FenceDocs == UNION {[1 .. n -> FenceLines] : n \in 1 .. MaxFenceLines}

FenceKeys == {plain(BT), plain("Backspace"), plain("Enter")}

InitFence == InitWith(FenceDocs, MaxFenceSteps)

KeydownFence == Keydown(FenceKeys, 1)

NextFence == KeydownFence \/ Click \/ Blur \/ BlurCheck

SpecFence == InitFence /\ [][NextFence]_vars

(***************************************************************************)
(* Moving the caret with and without Shift, and pointer events.            *)
(***************************************************************************)
MoveKeys ==
  {shifted("ArrowUp"), shifted("ArrowDown"), shifted("Home"), shifted("End")}
  \cup {plain(k) : k \in {"ArrowUp", "ArrowDown", "ArrowLeft", "ArrowRight", "Home", "End",
                           "Escape"}}

InitMove == InitWith(ClipDocs, MaxMoveSteps)

KeydownMove == Keydown(MoveKeys, 1)

NextMove == KeydownMove \/ Click \/ DragSelect \/ Blur \/ BlurCheck

SpecMove == InitMove /\ [][NextMove]_vars

(***************************************************************************)
(* Properties.  They read the variables and `last`, the record of the step *)
(* that led to the current state.                                          *)
(***************************************************************************)
\* the first k characters of a string, and the string without them
Prefix(str, k) == [i \in 1 .. k |-> str[i]]
Suffix(str, k) == [i \in 1 .. Len(str) - k |-> str[k + i]]

\* a keyboard selection that spans lines is active in state p
crossKsel(p) == p.ksel # NoKsel /\ p.ksel.focusLine # p.ksel.anchorLine

\* the key event goes to a line editor that handles the keyboard selection
kbdPath(p) == p.focus # NoFocus /\ crossKsel(p)

\* the cross-line range the document keydown handler finds in state p
globalRange(p) ==
  IF ~(p.crossLineSelActive \/ p.ksel # NoKsel) THEN NoCross
  ELSE IF getCrossLineSelection(p) # NoCross THEN getCrossLineSelection(p)
  ELSE getKselAsCross(p)

\* the range a Delete or Backspace pressed in state p consumes, if any
consumedRange(p) ==
  IF kbdPath(p) THEN kselNormalized(p.ksel)
  ELSE IF p.focus = NoFocus THEN globalRange(p)
  ELSE NoCross

\* r addresses existing lines and offsets inside them, start line first
validRange(ls, r) ==
  /\ 0 <= r.startLine /\ r.startLine < r.endLine /\ r.endLine < Len(ls)
  /\ 0 <= r.startOffset /\ r.startOffset <= Len(ls[r.startLine + 1])
  /\ 0 <= r.endOffset /\ r.endOffset <= Len(ls[r.endLine + 1])

\* the lines of ls with the range r replaced by the lines mid
rangeReplaced(ls, r, mid) ==
  SubSeq(ls, 1, r.startLine) \o mid \o SubSeq(ls, r.endLine + 2, Len(ls))

wholeDocument(ls) ==
  [startLine |-> 0, startOffset |-> 0, endLine |-> Len(ls) - 1,
   endOffset |-> Len(ls[Len(ls)])]

\* C1: the document always has at least one line, and a range delete that
\* covers the whole document leaves exactly one empty line
C1_NonEmpty ==
  /\ Len(lines) >= 1
  /\ (last.op \in {"Delete", "Backspace"} /\ Len(last.pre.lines) >= 2
      /\ consumedRange(last.pre) = wholeDocument(last.pre.lines))
     => lines = << <<>> >>

C1_Witness ==
  /\ last.op \in {"Delete", "Backspace"}
  /\ Len(last.pre.lines) >= 2
  /\ consumedRange(last.pre) = wholeDocument(last.pre.lines)
  /\ lines = << <<>> >>

\* state p holds a document that is committed on top of an earlier entry,
\* with nothing pending and nothing to redo
committedOnTop(p) ==
  /\ Len(p.undoStack) >= 2
  /\ p.undoStack[Len(p.undoStack)] = p.lines
  /\ p.undoStack[Len(p.undoStack) - 1] # p.lines
  /\ ~p.undoPushTimer
  /\ p.redoStack = <<>>

\* C2: once S is committed on top of S0, one undo() restores S0, and a redo()
\* right after an undo() restores the document the undo() was applied to
C2_UndoRedoInverse ==
  /\ (last.op = "undo" /\ committedOnTop(last.pre))
     => lines = last.pre.undoStack[Len(last.pre.undoStack) - 1]
  /\ (last.op = "redo" /\ last.before.op = "undo" /\ Len(last.pre.redoStack) > 0)
     => lines = last.before.lines

\* C3: redo() is never applied with a non-empty redo stack after an edit has
\* changed the document since the last undo()
C3_RedoDiscardedByEdit ==
  ~(last.op = "redo" /\ Len(last.pre.redoStack) > 0 /\ last.dirty)

\* C4: undo() on an empty undo stack changes nothing; otherwise it pushes the
\* current document on the redo stack and makes the popped top of the undo
\* stack the document; redo() is the same with the stacks exchanged
C4_UndoRedoSteps ==
  /\ last.op = "undo" =>
       IF last.pre.undoStack = <<>>
       THEN /\ lines = last.pre.lines
            /\ undoStack = <<>>
            /\ redoStack = last.pre.redoStack
       ELSE /\ lines = last.pre.undoStack[Len(last.pre.undoStack)]
            /\ undoStack \o <<lines>> = last.pre.undoStack
            /\ redoStack = last.pre.redoStack \o <<last.pre.lines>>
  /\ last.op = "redo" =>
       IF last.pre.redoStack = <<>>
       THEN /\ lines = last.pre.lines
            /\ redoStack = <<>>
            /\ undoStack = last.pre.undoStack
       ELSE /\ lines = last.pre.redoStack[Len(last.pre.redoStack)]
            /\ redoStack \o <<lines>> = last.pre.redoStack
            /\ undoStack = last.pre.undoStack \o <<last.pre.lines>>

C4_Witness ==
  /\ last.op = "undo"
  /\ Len(last.pre.undoStack) >= 2
  /\ lines # last.pre.lines
  /\ Len(redoStack) >= 2

\* C5: when the commit fires the snapshot is pushed on the undo stack unless
\* it equals the top entry, and the redo stack is empty afterwards
C5_CommitClearsRedo ==
  last.op = "commit" =>
    /\ redoStack = <<>>
    /\ IF last.pre.undoStack # <<>>
          /\ last.pre.undoStack[Len(last.pre.undoStack)] = last.pre.lines
       THEN undoStack = last.pre.undoStack
       ELSE \/ undoStack = last.pre.undoStack \o <<last.pre.lines>>
            \/ /\ Len(last.pre.undoStack) = UNDO_CAP
               /\ undoStack = Tail(last.pre.undoStack) \o <<last.pre.lines>>

\* C6: both stacks hold at most 200 entries, and a commit on a full undo
\* stack discards its oldest entry
C6_StackCap ==
  /\ Len(undoStack) <= UNDO_CAP
  /\ Len(redoStack) <= UNDO_CAP
  /\ (last.op = "commit" /\ Len(last.pre.undoStack) = UNDO_CAP
      /\ last.pre.undoStack[UNDO_CAP] # last.pre.lines)
     => undoStack = Tail(last.pre.undoStack) \o <<last.pre.lines>>

C6_Witness ==
  /\ last.op = "commit"
  /\ Len(last.pre.undoStack) = UNDO_CAP
  /\ Len(undoStack) = UNDO_CAP
  /\ undoStack # last.pre.undoStack

\* no cross-line selection, keyboard or pointer, is active in state p
noCrossSel(p) == ~crossKsel(p) /\ globalRange(p) = NoCross

\* the cross-line selection active in state p: the keyboard one, else the
\* pointer one
activeRange(p) ==
  IF crossKsel(p) THEN kselNormalized(p.ksel)
  ELSE IF p.crossLineSelActive THEN getCrossLineSelection(p)
  ELSE NoCross

beforeOf(ls, r) == Prefix(ls[r.startLine + 1], r.startOffset)
afterOf(ls, r) == Suffix(ls[r.endLine + 1], r.endOffset)

\* C7: Delete or Backspace on a cross-line range replaces the lines
\* startLine..endLine by the single line before+after, leaves the other lines
\* as they are and drops the line count by endLine-startLine, on the keyboard
\* path and on the document-level path alike
C7_RangeDelete ==
  LET p == last.pre
      r == consumedRange(p)
  IN (last.op \in {"Delete", "Backspace"} /\ r # NoCross /\ validRange(p.lines, r))
     => /\ lines = rangeReplaced(p.lines, r, <<beforeOf(p.lines, r) \o afterOf(p.lines, r)>>)
        /\ Len(lines) = Len(p.lines) - (r.endLine - r.startLine)

\* "abc","def","ghi" with (0,1)-(2,2) deleted through the document-level path
C7_Witness ==
  /\ last.op \in {"Delete", "Backspace"}
  /\ last.pre.lines = DocAbc
  /\ last.pre.focus = NoFocus
  /\ consumedRange(last.pre) =
       [startLine |-> 0, startOffset |-> 1, endLine |-> 2, endOffset |-> 2]
  /\ lines = << <<"a", "i">> >>

\* C8: typing a character c over an active cross-line selection (keyboard or
\* pointer) leaves the range-delete result with c at the junction; Enter on a
\* keyboard cross-line selection leaves the two lines before and after in
\* place of the range
C8_RangeReplace ==
  LET p == last.pre
      r == activeRange(p)
  IN /\ (last.op = "char" /\ r # NoCross /\ validRange(p.lines, r))
        => lines = rangeReplaced(p.lines, r,
                     <<beforeOf(p.lines, r) \o <<last.arg>> \o afterOf(p.lines, r)>>)
     /\ (last.op = "Enter" /\ crossKsel(p) /\ validRange(p.lines, r))
        => lines = rangeReplaced(p.lines, r, <<beforeOf(p.lines, r), afterOf(p.lines, r)>>)

\* C9: Enter on line idx with the caret at k, no cross-line selection and no
\* list prefix before the caret, cuts the line at k: the first k characters
\* stay on line idx, the rest becomes line idx+1, nothing else changes
C9_Split ==
  LET p == last.pre
      idx == p.focus
      k == p.selStart
  IN (last.op = "Enter" /\ idx # NoFocus /\ p.selEnd = k /\ noCrossSel(p)
      /\ ~listMatch(Prefix(p.lines[idx + 1], k)).ok)
     => /\ lines = SubSeq(p.lines, 1, idx)
                   \o <<Prefix(p.lines[idx + 1], k), Suffix(p.lines[idx + 1], k)>>
                   \o SubSeq(p.lines, idx + 2, Len(p.lines))
        /\ Len(lines) = Len(p.lines) + 1

\* "hello world" cut at offset 5
C9_Witness ==
  /\ last.op = "Enter"
  /\ last.pre.lines = DocHello
  /\ last.pre.focus = 0 /\ last.pre.selStart = 5 /\ last.pre.selEnd = 5
  /\ noCrossSel(last.pre)
  /\ lines = << <<"h", "e", "l", "l", "o">>, <<" ", "w", "o", "r", "l", "d">> >>

\* C10: Backspace with a collapsed caret at column 0 of line idx > 0 joins
\* lines idx-1 and idx, leaves the other lines as they are and puts the caret
\* on line idx-1 at the former length of that line; on line 0 the document
\* does not change
C10_MergeBackward ==
  LET p == last.pre
      idx == p.focus
  IN (last.op = "Backspace" /\ idx # NoFocus /\ p.selStart = 0 /\ p.selEnd = 0
      /\ noCrossSel(p))
     => IF idx = 0 THEN lines = p.lines
        ELSE /\ lines = SubSeq(p.lines, 1, idx - 1)
                        \o <<p.lines[idx] \o p.lines[idx + 1]>>
                        \o SubSeq(p.lines, idx + 2, Len(p.lines))
             /\ Len(lines) = Len(p.lines) - 1
             /\ focus = idx - 1
             /\ selStart = Len(p.lines[idx]) /\ selEnd = Len(p.lines[idx])

\* "foo","bar" joined, caret at 3
C10_Witness ==
  /\ last.op = "Backspace"
  /\ last.pre.lines = DocFoo
  /\ last.pre.focus = 1 /\ last.pre.selStart = 0 /\ last.pre.selEnd = 0
  /\ lines = << <<"f", "o", "o", "b", "a", "r">> >>
  /\ focus = 0 /\ selStart = 3 /\ selEnd = 3

\* C11: Delete with the caret at the end of line idx joins lines idx and
\* idx+1 when idx is not the last line, leaving the other lines as they are
\* and the line count one lower; on the last line the document does not change
C11_MergeForward ==
  LET p == last.pre
      idx == p.focus
  IN (last.op = "Delete" /\ idx # NoFocus /\ noCrossSel(p)
      /\ p.selStart = Len(p.lines[idx + 1]) /\ p.selEnd = p.selStart)
     => IF idx = Len(p.lines) - 1 THEN lines = p.lines
        ELSE /\ lines = SubSeq(p.lines, 1, idx)
                        \o <<p.lines[idx + 1] \o p.lines[idx + 2]>>
                        \o SubSeq(p.lines, idx + 3, Len(p.lines))
             /\ Len(lines) = Len(p.lines) - 1

\* "foo","bar" joined from the end of line 0
C11_Witness ==
  /\ last.op = "Delete"
  /\ last.pre.lines = DocFoo
  /\ last.pre.focus = 0 /\ last.pre.selStart = 3 /\ last.pre.selEnd = 3
  /\ noCrossSel(last.pre)
  /\ lines = << <<"f", "o", "o", "b", "a", "r">> >>

\* Delete at the end of the last line
C11_WitnessLast ==
  /\ last.op = "Delete"
  /\ last.pre.focus = Len(last.pre.lines) - 1
  /\ last.pre.selStart = Len(last.pre.lines[Len(last.pre.lines)])

\* every character of str is a decimal digit
allDigits(str) == \A i \in 1 .. Len(str) : isDigit(str[i])

\* the number a string of decimal digits denotes
RECURSIVE Decimal(_)
Decimal(str) ==
  IF str = <<>> THEN 0
  ELSE 10 * Decimal(SubSeq(str, 1, Len(str) - 1)) + digitValue(str[Len(str)])

\* mark continues the list marker: the same bullet and a space, or the next
\* ordinal, a dot and a space
continuesMarker(mark, marker) ==
  IF isDigit(marker[1])
  THEN /\ Len(mark) >= 3
       /\ Suffix(mark, Len(mark) - 2) = <<".", " ">>
       /\ allDigits(Prefix(mark, Len(mark) - 2))
       /\ mark[1] # "0"
       /\ Decimal(Prefix(mark, Len(mark) - 2))
            = Decimal(Prefix(marker, Len(marker) - 1)) + 1
  ELSE mark = marker \o <<" ">>

\* C12: when Enter splits a line whose text before the caret is a list prefix
\* followed by further content, line idx keeps the text before the caret and
\* the new line idx+1 is the same indentation, the same bullet (or the ordinal
\* N+1 for a numbered item) and the text that was after the caret
C12_ListContinuation ==
  LET p == last.pre
      idx == p.focus
      k == p.selStart
      before == Prefix(p.lines[idx + 1], k)
      after == Suffix(p.lines[idx + 1], k)
      m == listMatch(before)
      new == lines[idx + 2]
      head == Prefix(new, Len(new) - Len(after))
  IN (last.op = "Enter" /\ idx # NoFocus /\ p.selEnd = k /\ noCrossSel(p)
      /\ m.ok /\ trim(before) # m.marker)
     => /\ Len(lines) = Len(p.lines) + 1
        /\ SubSeq(lines, 1, idx) = SubSeq(p.lines, 1, idx)
        /\ SubSeq(lines, idx + 3, Len(lines)) = SubSeq(p.lines, idx + 2, Len(p.lines))
        /\ lines[idx + 1] = before
        /\ Len(new) >= Len(after) + Len(m.indent)
        /\ Suffix(new, Len(new) - Len(after)) = after
        /\ Prefix(head, Len(m.indent)) = m.indent
        /\ continuesMarker(Suffix(head, Len(m.indent)), m.marker)

\* " 9. b" split at its end: the new line is " 10. "
C12_Witness ==
  /\ last.op = "Enter"
  /\ last.pre.lines = DocNum
  /\ last.pre.focus = 0 /\ last.pre.selStart = 5 /\ last.pre.selEnd = 5
  /\ lines = << <<" ", "9", ".", " ", "b">>, <<" ", "1", "0", ".", " ">> >>

\* "- a" split at its end: the new line is "- "
C12_WitnessBullet ==
  /\ last.op = "Enter"
  /\ last.pre.lines = DocList
  /\ last.pre.focus = 0 /\ last.pre.selStart = 3 /\ last.pre.selEnd = 3
  /\ lines[2] = <<"-", " ">>

\* the line consists only of a list-item prefix
emptyBullet(line) == listMatch(line).ok /\ trim(line) = listMatch(line).marker

\* Enter is pressed on line idx of state p, an empty bulleted line, with a
\* collapsed caret and no cross-line selection
enterOnEmptyBullet(p) ==
  /\ last.op = "Enter" /\ p.focus # NoFocus /\ p.selEnd = p.selStart /\ noCrossSel(p)
  /\ emptyBullet(p.lines[p.focus + 1])

RECURSIVE restOfRange(_, _, _)
restOfRange(ls, i, r) ==
  IF i = r.endLine THEN <<NL>> \o Prefix(ls[i + 1], r.endOffset)
  ELSE <<NL>> \o ls[i + 1] \o restOfRange(ls, i + 1, r)

\* the text of the cross-line range r of ls
rangeText(ls, r) ==
  Suffix(ls[r.startLine + 1], r.startOffset) \o restOfRange(ls, r.startLine + 1, r)

\* C14: Ctrl+C on a cross-line selection writes the suffix of the start line,
\* the interior lines and the prefix of the end line, joined by newlines, to
\* the clipboard, and changes neither the lines, the selection nor the stacks
C14_CopyText ==
  LET p == last.pre
      r == globalRange(p)
  IN (last.op = "copy" /\ r # NoCross)
     => /\ validRange(p.lines, r)
        /\ clipboard = rangeText(p.lines, r)
        /\ lines = p.lines
        /\ ksel = p.ksel /\ crossLineSelActive = p.crossLineSelActive /\ domSel = p.domSel
        /\ undoStack = p.undoStack /\ redoStack = p.redoStack

\* "ab","c","de" with (0,1)-(2,1) copied: an interior line is part of the text
C14_Witness ==
  /\ last.op = "copy"
  /\ last.pre.lines = DocThree
  /\ globalRange(last.pre) = [startLine |-> 0, startOffset |-> 1, endLine |-> 2, endOffset |-> 1]
  /\ clipboard = <<"b", NL, "c", NL, "d">>

\* the document ls with the text str inserted into line idx at offset k
insertedAt(ls, idx, k, str) ==
  [ls EXCEPT ![idx + 1] = Prefix(@, k) \o str \o Suffix(@, k)]

\* C15: Ctrl+X on a cross-line selection writes the text copy would write,
\* deletes the range, and leaves no keyboard selection; the cut text inserted
\* at the junction of the merged line gives back the text of the document
C15_CutRoundTrip ==
  LET p == last.pre
      r == globalRange(p)
  IN (last.op = "cut" /\ r # NoCross)
     => /\ validRange(p.lines, r)
        /\ clipboard = rangeText(p.lines, r)
        /\ lines = rangeReplaced(p.lines, r, <<beforeOf(p.lines, r) \o afterOf(p.lines, r)>>)
        /\ Join(insertedAt(lines, r.startLine, r.startOffset, clipboard)) = Join(p.lines)
        /\ ksel = NoKsel

\* "ab","c","de" with the selection (0,1)-(2,1) cut
C15_Witness ==
  /\ last.op = "cut"
  /\ last.pre.lines = DocThree
  /\ globalRange(last.pre) = [startLine |-> 0, startOffset |-> 1, endLine |-> 2, endOffset |-> 1]
  /\ clipboard = <<"b", NL, "c", NL, "d">>
  /\ lines = << <<"a", "e">> >>

\* the same document with the keyboard selection (0,2)-(2,0) cut
C15_WitnessKeyboard ==
  /\ last.op = "cut"
  /\ last.pre.lines = DocThree
  /\ last.pre.ksel = [anchorLine |-> 0, anchorOffset |-> 2, focusLine |-> 2, focusOffset |-> 0]
  /\ clipboard = <<NL, "c", NL>>
  /\ lines = << <<"a", "b", "d", "e">> >>

\* the keyboard selection that spans the whole document ls
wholeKsel(ls) ==
  [anchorLine |-> 0, anchorOffset |-> 0, focusLine |-> Len(ls) - 1,
   focusOffset |-> Len(ls[Len(ls)])]

\* the selection made by whole-document select is still the active one
wholeSelected(p) == p.ksel = wholeKsel(p.lines) /\ p.domSel.kind = "container"

\* C16: whole-document select sets the keyboard selection to (0,0)-(last
\* line, its length) on documents of one line or more; a copy made while
\* that selection is active puts the lines joined by newlines on the
\* clipboard; the copy handler it installs delivers at most once
C16_SelectAllCopy ==
  /\ last.op = "selectAll" => (ksel = wholeKsel(lines) /\ lines = last.pre.lines)
  /\ (last.op = "copy" /\ wholeSelected(last.pre)) => clipboard = Join(last.pre.lines)
  /\ oncopy.fired <= 1

\* the lines of the fence block of line i, empty when i is in no block
blockOf(ls, i) ==
  IF getFenceRange(ls, i) = NoRange THEN {}
  ELSE getFenceRange(ls, i).start .. getFenceRange(ls, i).end

\* C17: the lines of one fence block are all being edited or all rendered
C17_BlockSharesMode ==
  \A i \in 0 .. Len(lines) - 1 : \A j \in blockOf(lines, i) :
    (i \in editing) <=> (j \in editing)

\* the lines that change mode together with line i: its fence block, or
\* the line alone when it is in no block
modeUnit(ls, i) == IF blockOf(ls, i) = {} THEN {i} ELSE blockOf(ls, i)

\* the blur check of line idx finds the focus in the fence block of idx
focusInBlock(p, idx) == p.focus # NoFocus /\ p.focus \in blockOf(p.lines, idx)

\* C18: a click on line i puts the whole fence block of i into editing mode
\* in that step (line i alone when it is in no block) and changes the mode
\* of no other line; the blur check of a line that the focus has left puts
\* the whole block (the line alone) back into rendered mode
C18_BlockOpensAndCloses ==
  LET p == last.pre
  IN /\ last.op = "click"
          => editing = p.editing \cup modeUnit(p.lines, last.arg[1])
     /\ (last.op = "blurCheck" /\ hasEl(p, last.arg) /\ ~focusInBlock(p, last.arg))
          => editing = p.editing \ modeUnit(p.lines, last.arg)

\* "a" and the unclosed block 1..2: a click on line 2 opens lines 1 and 2
C18_Witness ==
  /\ last.op = "click" /\ last.arg[1] = 2
  /\ lines = << <<"a">>, <<BT, BT, BT>>, <<"a">> >>
  /\ last.pre.editing = {0}
  /\ editing = {0, 1, 2}

\* the block 0..1 and "a": the focus went to line 2 and the blur check of
\* line 0 closes lines 0 and 1
C18_WitnessLeave ==
  /\ last.op = "blurCheck" /\ last.arg = 0
  /\ lines = << <<BT, BT, BT>>, <<BT, BT, BT>>, <<"a">> >>
  /\ last.pre.editing = {0, 1, 2}
  /\ editing = {2}

\* the fence ranges of the lines i, i+1, ... of ls
RECURSIVE fenceRanges(_, _)
fenceRanges(ls, i) ==
  IF i >= Len(ls) THEN <<>> ELSE <<getFenceRange(ls, i)>> \o fenceRanges(ls, i + 1)

\* the lines of a fence range, none when there is no range
linesOf(r) == IF r = NoRange THEN {} ELSE r.start .. r.end

\* C19: on every document the fence ranges of two lines are the same range
\* or disjoint ranges, and every line inside the range of a line has that
\* range
C19_BlocksDisjoint ==
  LET range == fenceRanges(lines, 0)
  IN \A i \in 1 .. Len(lines) :
       /\ \A j \in 1 .. Len(lines) :
            range[i] = range[j] \/ linesOf(range[i]) \cap linesOf(range[j]) = {}
       /\ \A k \in linesOf(range[i]) : range[k + 1] = range[i]

\* a closed block 0..1 followed by an unclosed one, after a click on the
\* closing delimiter
C19_Witness ==
  /\ last.op = "click" /\ last.arg[1] = 1
  /\ lines = << <<BT, BT, BT>>, <<BT, BT, BT>>, <<BT, BT, BT>> >>
  /\ getFenceRange(lines, 1) = [start |-> 0, end |-> 1]
  /\ getFenceRange(lines, 2) = [start |-> 2, end |-> 2]
  /\ editing = {0, 1}

\* the keys that move the caret, pressed without Shift
CaretKeys == {"ArrowUp", "ArrowDown", "ArrowLeft", "ArrowRight", "Home", "End"}

\* the step moved the caret of the textarea that had the focus in state p
caretMoved(p) ==
  p.focus # NoFocus /\ (focus # p.focus \/ selStart # p.selStart \/ selEnd # p.selEnd)

\* C20: a keyboard selection that spans lines is gone after a click or a
\* drag in the editor pane, and after a key without Shift has moved the
\* caret, on the first and the last line as on any other
C20_MoveClearsKsel ==
  /\ (last.op \in {"click", "drag"} /\ crossKsel(last.pre)) => ksel = NoKsel
  /\ (last.op \in CaretKeys /\ crossKsel(last.pre) /\ caretMoved(last.pre))
       => ksel = NoKsel

\* the keyboard selection a Shift+Arrow pressed in state p starts from: the
\* one there is, or the collapsed one at the caret of the focused line
kselBefore(p) ==
  IF p.ksel # NoKsel THEN p.ksel
  ELSE [anchorLine |-> p.focus, anchorOffset |-> p.selStart,
        focusLine |-> p.focus, focusOffset |-> p.selStart]

\* the focus of the keyboard selection can move by one line in direction d
canMove(p, d) ==
  /\ kselBefore(p).focusLine + d >= 0
  /\ kselBefore(p).focusLine + d <= Len(p.lines) - 1

\* C21: Shift+ArrowUp moves the focus of the keyboard selection up by one
\* line, to the end of that line, and Shift+ArrowDown down by one line, to
\* its start; the anchor is the caret when the selection starts and does
\* not change afterwards, and the focus line stays inside the document
C21_ShiftArrowExtends ==
  LET p == last.pre
      k == kselBefore(p)
  IN /\ (last.op = "ShiftArrowUp" /\ p.focus # NoFocus /\ canMove(p, -1))
          => /\ ksel # NoKsel
             /\ ksel.anchorLine = k.anchorLine /\ ksel.anchorOffset = k.anchorOffset
             /\ ksel.focusLine = k.focusLine - 1
             /\ ksel.focusOffset = Len(lines[ksel.focusLine + 1])
     /\ (last.op = "ShiftArrowDown" /\ p.focus # NoFocus /\ canMove(p, 1))
          => /\ ksel # NoKsel
             /\ ksel.anchorLine = k.anchorLine /\ ksel.anchorOffset = k.anchorOffset
             /\ ksel.focusLine = k.focusLine + 1
             /\ ksel.focusOffset = 0
     /\ ksel # NoKsel => (ksel.focusLine >= 0 /\ ksel.focusLine <= Len(lines) - 1)

\* C22: with a keyboard selection that spans lines, Shift+Home puts the
\* focus offset at 0 and Shift+End at the length of the focus line, and the
\* focus line and the anchor stay as they are
C22_ShiftHomeEnd ==
  LET p == last.pre
  IN (last.op \in {"ShiftHome", "ShiftEnd"} /\ p.focus # NoFocus /\ crossKsel(p))
     => /\ ksel # NoKsel
        /\ ksel.focusLine = p.ksel.focusLine
        /\ ksel.anchorLine = p.ksel.anchorLine /\ ksel.anchorOffset = p.ksel.anchorOffset
        /\ ksel.focusOffset = IF last.op = "ShiftHome" THEN 0
                              ELSE Len(lines[p.ksel.focusLine + 1])

\* ---------------------------------------------------------------------------
\* Normalisation of a keyboard selection with arbitrary anchor and focus
\* ---------------------------------------------------------------------------

\* number of key events applied to the drawn selection
MaxNormSteps == 1

\* every (line, offset) position of a document
positions(doc) ==
  UNION {{<<l, o>> : o \in 0 .. Len(doc[l + 1])} : l \in 0 .. Len(doc) - 1}

\* the editor holding a keyboard selection from anchor a to focus f, painted
\* by applyKselVisual
InitNorm ==
  \E a \in positions(DocThree) : \E f \in positions(DocThree) :
    StartsAs(runRaf(applyKselVisual(
               [init(DocThree) EXCEPT !.ksel = [anchorLine |-> a[1], anchorOffset |-> a[2],
                                                focusLine |-> f[1], focusOffset |-> f[2]]])),
             MaxNormSteps)

\* the keys whose handlers read the normalized range: Delete and Backspace
\* (deleteKsel) and copy (getKselAsCross)
NextNorm == Keydown({plain("Delete"), plain("Backspace"), ctrl("c")}, 1)

SpecNorm == InitNorm /\ [][NextNorm]_vars

\* lexicographic order on (line, offset) pairs
lexLE(l1, o1, l2, o2) == l1 < l2 \/ (l1 = l2 /\ o1 <= o2)

\* C23: for any keyboard selection, the normalized range has its start at or
\* before its end in (line, offset) order, and its endpoints are exactly the
\* anchor and the focus, swapped when the focus precedes the anchor.
C23_NormalizedOrdered ==
  ksel # NoKsel =>
    LET n == kselNormalized(ksel)
        anchor == <<ksel.anchorLine, ksel.anchorOffset>>
        foc == <<ksel.focusLine, ksel.focusOffset>>
        start == <<n.startLine, n.startOffset>>
        end == <<n.endLine, n.endOffset>>
    IN /\ lexLE(n.startLine, n.startOffset, n.endLine, n.endOffset)
       /\ IF lexLE(anchor[1], anchor[2], foc[1], foc[2])
          THEN start = anchor /\ end = foc
          ELSE start = foc /\ end = anchor

\* a same-line selection whose focus precedes its anchor is held
C23_Witness ==
  /\ ksel # NoKsel
  /\ ksel.anchorLine = ksel.focusLine
  /\ ksel.focusOffset < ksel.anchorOffset

\* a selection from (2,1) back to (0,1) over "ab","c","de" was deleted from
\* its normalized start to its normalized end
C23_WitnessDelete ==
  /\ last.op = "Delete"
  /\ last.pre.ksel = [anchorLine |-> 2, anchorOffset |-> 1, focusLine |-> 0, focusOffset |-> 1]
  /\ lines = << <<"a", "e">> >>

\* the line handler of the focused editor extended the keyboard selection
\* across lines in the last step
extendedAcross ==
  /\ last.op \in {"ShiftArrowUp", "ShiftArrowDown", "ShiftHome", "ShiftEnd"}
  /\ last.pre.focus # NoFocus
  /\ ksel # NoKsel
  /\ ksel.focusLine # ksel.anchorLine

\* the lines of the normalized range of keyboard selection k
kselLines(k) == kselNormalized(k).startLine .. kselNormalized(k).endLine

C24_WitnessExtended ==
  /\ extendedAcross
  /\ crossKsel(last.pre)
  /\ Cardinality(kselLines(ksel)) = 3

\* the step ended the keyboard selection that spanned lines in state p
kselEnded(p) == crossKsel(p) /\ ksel = NoKsel

\* the line the caret belongs to once the selection of state p has ended:
\* where the replacement text ends when the range was consumed, and the focus
\* line of the selection when it was cleared
lineToRestore(p) ==
  IF last.op \in {"Delete", "Backspace", "char", "cut"} THEN kselNormalized(p.ksel).startLine
  ELSE IF last.op = "Enter" THEN kselNormalized(p.ksel).startLine + 1
  ELSE p.ksel.focusLine

\* C25: once a keyboard selection that spans lines has been consumed (delete,
\* type-over, cut) or cleared (caret movement, pointer, Escape), the line that
\* had its focus is in Editing mode again.
C25_FocusLineRestored ==
  kselEnded(last.pre) => lineToRestore(last.pre) \in editing

\* the editing operations of the keyboard
EditOps == {"char", "Enter", "Backspace", "Delete", "Tab", "cut"}

\* C26: every operation that changes the content of the line store arms the
\* history commit timer, so that a snapshot of the change is scheduled.
C26_ChangeArmsCommit ==
  (last.op \in EditOps /\ lines # last.pre.lines) => undoPushTimer

\* ---------------------------------------------------------------------------
\* Line tools: move, indent, outdent and duplicate, with Enter and undo()
\* changing the number of lines under the active line index.
\* ---------------------------------------------------------------------------
MaxToolSteps == 3

ToolDocs == {DocOne, DocMark}

ToolKeys == {plain("Enter"), alt("ArrowUp"), alt("ArrowDown"), ctrl("]"), ctrl("["), ctrl("d")}

InitTools == InitWith(ToolDocs, MaxToolSteps)

\* once the line store holds an entry that is not a string,
\* computeFenceStates() throws in every handler that follows
KeydownTools == allStrings(lines) /\ Keydown(ToolKeys, 1)

UndoTools == allStrings(lines) /\ Undo

ClickTools == allStrings(lines) /\ Click

NextTools == KeydownTools \/ UndoTools \/ ClickTools \/ Blur \/ BlurCheck

SpecTools == InitTools /\ [][NextTools]_vars

ToolOps == {"moveLineUp", "moveLineDown", "indentLines", "outdentLines", "duplicateLine"}

\* C27: no operation writes to the line store at an index outside its range:
\* a line tool whose line index is out of range leaves the line sequence as
\* it was, and every entry of the sequence is a string at all times.
C27_NoOutOfRangeWrite ==
  /\ allStrings(lines)
  /\ (last.op \in ToolOps /\ last.pre.focus = NoFocus
        /\ last.pre.domSel.kind = "none" /\ last.pre.activeLineIdx >= Len(last.pre.lines))
       => lines = last.pre.lines

\* ---------------------------------------------------------------------------
\* Find and replace from the find bar, between history commits and undo.
\* ---------------------------------------------------------------------------
MaxReplaceSteps == 2

TermChars == {"c", "*", "("}

\* the search terms entered: of no, one and two characters
Terms ==
  {<<>>} \cup {<<a>> : a \in TermChars} \cup {<<a, b>> : a \in TermChars, b \in TermChars}

\* what the find bar holds when a replace button is pressed
ReplaceOptions ==
  [term : Terms, replacement : {<<"x">>}, useRegex : BOOLEAN, caseSensitive : BOOLEAN]

InitReplace == InitWith({DocOne, DocMark}, MaxReplaceSteps)

\* the replace buttons are pressed with the focus in the find bar
ReplaceOne ==
  \E opt \in ReplaceOptions :
    focus = NoFocus /\ UserStep(replaceOne(S, opt), "replaceOne", opt, 1)

ReplaceAll ==
  \E opt \in ReplaceOptions :
    focus = NoFocus /\ UserStep(replaceAll(S, opt), "replaceAll", opt, 1)

CommitReplace == DoUndoTimerFire(0)

NextReplace ==
  \/ ReplaceOne \/ ReplaceAll
  \/ Undo \/ Blur \/ BlurCheck \/ CommitReplace

SpecReplace == InitReplace /\ [][NextReplace]_vars

\* the last step was a replace whose pattern did not compile
replaceFailed ==
  /\ last.op \in {"replaceOne", "replaceAll"}
  /\ last.arg.term # <<>>
  /\ last.arg.useRegex
  /\ syntaxError(last.arg.term)

\* C28: a replace-one or replace-all whose search pattern fails to compile
\* changes nothing: the line store, the undo and redo stacks and the pending
\* commit and autosave timers are as they were.
C28_BadPatternNoOp ==
  replaceFailed =>
    /\ lines = last.pre.lines
    /\ undoStack = last.pre.undoStack
    /\ redoStack = last.pre.redoStack
    /\ undoPushTimer = last.pre.undoPushTimer
    /\ autosaveTimer = last.pre.autosaveTimer

\* replace-one with the pattern "(" while no timer is pending
C28_Witness ==
  /\ replaceFailed
  /\ last.op = "replaceOne"
  /\ last.arg.term = <<"(">>
  /\ ~last.pre.undoPushTimer /\ ~last.pre.autosaveTimer

\* replace-all with the pattern "*c", which as plain text occurs in the
\* document, after an undo has filled the redo stack
C28_WitnessAll ==
  /\ replaceFailed
  /\ last.op = "replaceAll"
  /\ last.arg.term = <<"*", "c">>
  /\ lines = DocOne
  /\ redoStack # <<>>

\* ---------------------------------------------------------------------------
\* Storage: typing, the autosave timer and switching to another note, with
\* writes that may exceed the quota and stored values that may not be
\* readable.
\* ---------------------------------------------------------------------------
MaxStoreSteps == 2

StoredValues ==
  {[kind |-> k, content |-> <<>>] : k \in {"absent", "unreadable", "corrupt", "note"}}
  \cup {[kind |-> "note", content |-> Join(doc)] : doc \in {DocOne, DocMark}}

InitStore == InitWith({DocOne, DocMark}, MaxStoreSteps)

KeydownStore == Keydown({plain(c) : c \in TypeChars} \cup {plain("Enter")}, 1)

\* the autosave timer fires
AutosaveStore ==
  \E quotaExceeded \in BOOLEAN :
    /\ autosaveTimer
    /\ Becomes([saveDocument(S, quotaExceeded) EXCEPT !.autosaveTimer = FALSE],
               "save", quotaExceeded, 1)

\* a click on another note of the list, then the next frame
SwitchNote ==
  \E stored \in StoredValues : \E quotaExceeded \in BOOLEAN :
    UserStep(runRaf(switchTo(blurFocus(S), stored, quotaExceeded)), "switchTo",
             [stored |-> stored, quotaExceeded |-> quotaExceeded], 1)

NextStore == KeydownStore \/ AutosaveStore \/ SwitchNote \/ Click \/ BlurCheck

SpecStore == InitStore /\ [][NextStore]_vars

\* C29: a write to storage that fails during a save does not propagate out
\* of the save and leaves the line store and the history as they were; a
\* stored value that cannot be read or parsed is loaded as empty content,
\* without an error.
C29_StorageFailuresCaught ==
  /\ (last.op = "save" /\ last.arg)
       => /\ ~last.thrown
          /\ lines = last.pre.lines
          /\ undoStack = last.pre.undoStack
          /\ redoStack = last.pre.redoStack
  /\ (last.op = "switchTo" /\ ~last.arg.quotaExceeded
        /\ last.arg.stored.kind \in {"absent", "unreadable", "corrupt"})
       => /\ ~last.thrown
          /\ lines = << <<>> >>

\* the last step was Ctrl+D handled by the document alone, and the line its
\* frame callback switchToRaw(activeLineIdx + 1) was addressed to had no
\* line element
rawWithoutElement ==
  /\ last.op = "duplicateLine"
  /\ last.pre.focus = NoFocus
  /\ last.pre.activeLineIdx + 1 >= Len(lines)

\* C30: a mode operation addressed to a line index that has no line element
\* does nothing: no line changes its mode, and the active line index and the
\* line store stay as the handler before it left them.
C30_MissingElementNoOp ==
  rawWithoutElement =>
    /\ editing = last.pre.editing
    /\ activeLineIdx = last.pre.activeLineIdx
    /\ lines = Append(last.pre.lines, <<>>)

\* C31: at most one history commit is pending: edits record nothing on the
\* undo stack themselves, and when the commit timer fires no commit is left
\* pending, the undo stack gains at most one entry, and that entry is the
\* line sequence at the moment of firing.
C31_SingleCommit ==
  /\ (last.op \in EditOps) => undoStack = last.pre.undoStack
  /\ (last.op = "commit")
       => /\ ~undoPushTimer
          /\ lines = last.pre.lines
          /\ \/ undoStack = last.pre.undoStack
             \/ undoStack = Append(last.pre.undoStack, lines)
             \/ /\ Len(last.pre.undoStack) = UNDO_CAP
                /\ undoStack = Tail(Append(last.pre.undoStack, lines))

\* two characters typed into the empty document were committed as one entry
C31_Witness ==
  /\ last.op = "commit"
  /\ last.pre.undoStack = << << <<>> >> >>
  /\ lines = << <<"x", "x">> >>
  /\ undoStack = << << <<>> >>, lines >>

\* C32: the deferred blur check of line i leaves the modes of all lines as
\* they are, with the whole fence block of i in editing mode, when the focus
\* is on a line of the fence block of i; in every other case it puts line i
\* and its fence block into rendered mode and changes no other line
C32_BlurClosesUnlessSameBlock ==
  LET p == last.pre
      i == last.arg
  IN last.op = "blurCheck"
       => IF focusInBlock(p, i)
          THEN editing = p.editing /\ blockOf(p.lines, i) \subseteq editing
          ELSE editing = p.editing \ modeUnit(p.lines, i)

\* the block 0..2: the focus went from line 0 to line 1 of the block and
\* the blur check of line 0 leaves the three lines in editing mode
C32_Witness ==
  /\ last.op = "blurCheck" /\ last.arg = 0
  /\ lines = << <<BT, BT, BT>>, <<"a">>, <<BT, BT, BT>> >>
  /\ last.pre.focus = 1
  /\ editing = {0, 1, 2}

\* a plain line whose editor lost the focus to nothing is closed
C32_WitnessClosed ==
  /\ last.op = "blurCheck" /\ last.arg = 0
  /\ lines = << <<"a">>, <<BT, BT>> >>
  /\ last.pre.focus = NoFocus
  /\ last.pre.editing = {0}
  /\ editing = {}

\* the indices of the delimiter lines of ls
delimiters(ls) == {j \in 0 .. Len(ls) - 1 : startsWithFence(ls[j + 1])}

\* line i follows an odd number of delimiter lines
insideFence(ls, i) == Cardinality({j \in delimiters(ls) : j < i}) % 2 = 1

\* the opening delimiter of the fence that holds line i: the last delimiter
\* before a line inside a fence, the line itself otherwise
openingOf(ls, i) ==
  IF insideFence(ls, i)
  THEN CHOOSE m \in delimiters(ls) : m < i /\ \A j \in delimiters(ls) : j < i => j <= m
  ELSE i

\* the first delimiter after line start, the last line when there is none
closingOf(ls, start) ==
  IF {j \in delimiters(ls) : j > start} = {} THEN Len(ls) - 1
  ELSE minOf({j \in delimiters(ls) : j > start})

\* C33: getFenceRange(i) is none exactly when line i is no delimiter line
\* and is not inside a fence; otherwise its start is the opening delimiter
\* of the enclosing fence, its end the first delimiter line after start, or
\* the last line when there is none, and start <= i <= end
C33_FenceRange ==
  \A i \in 0 .. Len(lines) - 1 :
    LET r == getFenceRange(lines, i)
    IN IF i \notin delimiters(lines) /\ ~insideFence(lines, i)
       THEN r = NoRange
       ELSE /\ r # NoRange
            /\ r.start = openingOf(lines, i)
            /\ r.end = closingOf(lines, r.start)
            /\ r.start <= i /\ i <= r.end

\* text outside every fence, then a closed fence: a click on the closing
\* delimiter opened the range 1..2
C33_Witness ==
  /\ last.op = "click" /\ last.arg[1] = 2
  /\ lines = << <<"a">>, <<BT, BT, BT>>, <<BT, BT, BT>> >>
  /\ getFenceRange(lines, 0) = NoRange
  /\ getFenceRange(lines, 2) = [start |-> 1, end |-> 2]
  /\ {1, 2} \subseteq editing

\* a fence that is never closed ends at the last line
C33_WitnessUnclosed ==
  /\ last.op = "click" /\ last.arg[1] = 1
  /\ lines = << <<BT, BT, BT>>, <<"a">>, <<"a">> >>
  /\ getFenceRange(lines, 1) = [start |-> 0, end |-> 2]

\* C34: computeFenceStates yields one state per line, the state of line i
\* says inFence exactly when an odd number of lines before i start with the
\* delimiter, and a step that only looks up fence states (a click) leaves
\* the lines as they were
C34_FenceStates ==
  /\ Len(computeFenceStates(lines)) = Len(lines)
  /\ \A i \in 0 .. Len(lines) - 1 :
       computeFenceStates(lines)[i + 1].inFence = insideFence(lines, i)
  /\ last.op = "click" => lines = last.pre.lines

\* a closed fence of two delimiter lines and a line of text after it
C34_Witness ==
  /\ last.op = "click" /\ last.arg[1] = 2
  /\ lines = << <<BT, BT, BT>>, <<BT, BT, BT>>, <<"a">> >>
  /\ computeFenceStates(lines)[1].inFence = FALSE
  /\ computeFenceStates(lines)[2].inFence = TRUE
  /\ computeFenceStates(lines)[3].inFence = FALSE

\* line idx is shown rendered and its rendered text is as long as its raw
\* text, and not empty
sameLength(idx) ==
  /\ idx \in 0 .. Len(lines) - 1 /\ idx \notin editing
  /\ Len(Line(lines, idx)) > 0
  /\ Len(renderLineBlock(lines, idx)) = Len(Line(lines, idx))

\* C35: on a rendered line whose rendered text and raw text have the same
\* length L > 0, the projection of every rendered position 0..L is the same
\* raw offset, and the projection of every raw offset 0..L is the same
\* rendered position; the selection read after a drag and the selection
\* painted for a keyboard selection that starts inside the line carry these
\* offsets
C35_EqualLengthExact ==
  /\ \A idx \in 0 .. Len(lines) - 1 :
       sameLength(idx)
         => \A pos \in 0 .. Len(Line(lines, idx)) :
              /\ offsetInLine(S, idx, pos) = pos
              /\ findTextNodeAtOffset(lines, idx, pos) = pos
  /\ (last.op = "drag" /\ sameLength(domSel.startLine))
       => getCrossLineSelection(S).startOffset = domSel.startPos
  /\ (last.op = "drag" /\ sameLength(domSel.endLine))
       => getCrossLineSelection(S).endOffset = domSel.endPos
  /\ (last.op \in {"ShiftArrowUp", "ShiftArrowDown"} /\ ksel # NoKsel
        /\ domSel.kind = "range" /\ sameLength(domSel.startLine)
        /\ kselNormalized(ksel).startOffset <= Len(Line(lines, domSel.startLine)))
       => domSel.startPos = kselNormalized(ksel).startOffset

\* "ab","c","de": a drag from position 1 of line 0 to position 1 of line 2
\* is read as the raw range (0,1)-(2,1)
C35_Witness ==
  /\ last.op = "drag"
  /\ lines = DocThree
  /\ domSel.startPos = 1 /\ domSel.endPos = 1
  /\ getCrossLineSelection(S)
       = [startLine |-> 0, startOffset |-> 1, endLine |-> 2, endOffset |-> 1]

\* the keyboard selection extended down from (0,1) is painted from rendered
\* position 1 of line 0
C35_WitnessPaint ==
  /\ last.op = "ShiftArrowDown"
  /\ lines = DocThree
  /\ kselNormalized(ksel).startLine = 0 /\ kselNormalized(ksel).startOffset = 1
  /\ domSel.kind = "range" /\ domSel.startLine = 0 /\ domSel.startPos = 1

\* C36: Enter on line idx with no cross-line selection discards nothing but
\* a list-item prefix: either the document gains one line and the text t of
\* the line is the new line idx followed by the new line idx+1 without its
\* inherited list prefix, or t was nothing but a list-item prefix
C36_EnterKeepsContent ==
  LET p == last.pre
      idx == p.focus
      t == p.lines[idx + 1]
      cut == lines[idx + 1]
      new == lines[idx + 2]
      rest == Len(t) - Len(cut)
      head == Prefix(new, Len(new) - rest)
  IN (last.op = "Enter" /\ idx # NoFocus /\ noCrossSel(p))
     => \/ /\ Len(lines) = Len(p.lines) + 1
           /\ rest >= 0 /\ Len(new) >= rest
           /\ t = cut \o Suffix(new, Len(new) - rest)
           /\ (head = <<>> \/ emptyBullet(head))
        \/ emptyBullet(t)

\* C37: one Ctrl+D key event delivered to a focused line editor inserts one
\* copy of the active line: the document grows by exactly one line
C37_DuplicateOnce ==
  (last.op = "duplicateLine" /\ last.pre.focus # NoFocus)
    => Len(lines) = Len(last.pre.lines) + 1

\* C38: in every reachable state the active line index is the index of a
\* line of the document
C38_ActiveLineValid ==
  0 <= activeLineIdx /\ activeLineIdx < Len(lines)

\* C39: whenever a keyboard selection is active, its anchor and its focus
\* are on lines of the document and neither offset exceeds the length of
\* its line
C39_KselInDocument ==
  ksel # NoKsel
    => /\ ksel.anchorLine \in 0 .. Len(lines) - 1
       /\ ksel.focusLine \in 0 .. Len(lines) - 1
       /\ ksel.anchorOffset \in 0 .. Len(Line(lines, ksel.anchorLine))
       /\ ksel.focusOffset \in 0 .. Len(Line(lines, ksel.focusLine))

\* ---------------------------------------------------------------------------
\* Autosave: typing, Enter and Backspace on a plain line and on an empty
\* bullet, with the two timers firing whenever they are armed. Writes to
\* storage succeed, so lastSavedContent is the content saveDocument() stored
\* for the active note. The timer callbacks are run by the browser once
\* their delay has passed: the autosave callback is weakly fair.
\* ---------------------------------------------------------------------------
MaxSaveSteps == 2

SaveDocs == {DocBullet, DocOne}

SaveKeys == {plain(c) : c \in TypeChars} \cup {plain("Enter"), plain("Backspace")}

InitSave == InitWith(SaveDocs, MaxSaveSteps)

KeydownSave == Keydown(SaveKeys, 1)

\* the autosave timer fires
AutosaveSave ==
  /\ autosaveTimer
  /\ Becomes([saveDocument(S, FALSE) EXCEPT !.autosaveTimer = FALSE], "save", <<>>, 0)

CommitSave == DoUndoTimerFire(0)

NextSave == KeydownSave \/ AutosaveSave \/ CommitSave \/ Click \/ Blur \/ BlurCheck

SpecSave == InitSave /\ [][NextSave]_vars /\ WF_vars(AutosaveSave)

\* the step that led to this state changed the line store
storeChanged == lines # last.pre.lines

\* the content stored for the active note is the text of the document, and
\* no autosave is pending
storedIsCurrent == lastSavedContent = Join(lines) /\ ~autosaveTimer

\* C40: after a change to the line store the autosave timer eventually fires
\* and the content stored for the active note is then the text of the
\* document, the lines joined by newlines (the inputs of a behaviour are
\* finitely many, so every change is followed by a time without input)
C40_AutosaveLive == storeChanged ~> storedIsCurrent

====
